---- MODULE Spec2Model ----
(***************************************************************************)
(* Tinta4Plus: the privileged helper daemon (HelperDaemon.py), its EC      *)
(* register engine (ECController.py) and the client session                *)
(* (HelperClient.py), as state machines.                                   *)
(*                                                                         *)
(*   SpecEC      the register engine called directly by one caller         *)
(*   Spec        the daemon from construction to exit                      *)
(*   SpecServe   the serving daemon with two concurrent connections        *)
(*   SpecCmd     the serving daemon with one connection, every request     *)
(*   SpecFrame   the serving daemon reading request frames byte by byte    *)
(*   SpecPoll    a handler's register transaction, poll by poll            *)
(*   SpecClient  two front-end threads on one HelperClient                 *)
(***************************************************************************)
EXTENDS Integers, Sequences, FiniteSets, TLC

(***************************************************************************)
(* Program constants of ECController.                                      *)
(***************************************************************************)
EC_SC_PORT == 102
EC_DATA_PORT == 98
EC_STAT_OBF == 1
EC_STAT_IBF == 2
EC_CMD_READ == 128
EC_CMD_WRITE == 129
TIMEOUT_US == 500000
POLL_DELAY_US == 50
REG_BRIGHTNESS == 53
REG_POWER == 37
POWER_ON == 10
POWER_ON_SETTLED == 6
POWER_OFF == 5
POWER_OFF_SETTLED == 9
MAX_LEVEL == 8
LEVEL_STEP == 4

(***************************************************************************)
(* Bounds of the model.                                                    *)
(***************************************************************************)
\* set_brightness is tried with every level in -LevelSlack .. MAX_LEVEL + LevelSlack
LevelSlack == 1

\* Python's None where a level is optional
None == 0 - (MAX_LEVEL + LevelSlack + LevelSlack + 100)
LevelInputs == (0 - LevelSlack)..(MAX_LEVEL + LevelSlack)
\* levels enable_frontlight chains into set_brightness: absent, valid, invalid
ChainInputs == {None, 3, MAX_LEVEL + LevelSlack}

\* threads that call into the engine: the direct caller and the two client handlers
Clients == {"c1", "c2"}
EcThreads == {"e"} \cup Clients

VARIABLES
    hwcfg,   \* behaviour of the EC hardware: responsiveness and settle values
    hw,      \* the EC: protocol latch, address latch, data register, registers
    ecst,    \* ECController.access_available, .secure_boot_enabled
    ec,      \* per engine thread: the ECController call in progress
    prev,    \* the direct caller's previous completed call
    running, \* HelperDaemon.running
    mainpc,  \* the main thread's place in HelperDaemon.run
    exitCode,\* what run() returns
    pidFile, \* the liveness marker: "none", "own", "live" (another daemon's), "stale"
    sockFile,\* the socket file exists
    srvSock, \* HelperDaemon.server_socket: "none", "open", "closed"
    eink,    \* the panel controller: "none", "connected", "disconnected"
    wd,      \* the WatchdogTimer
    now,     \* wall clock, seconds
    sd,      \* per caller of HelperDaemon.shutdown: its place in the routine
    hnd,     \* per client connection: the handle_client thread
    csock,   \* HelperClient.socket: "none" or "open"
    transports, \* sockets the session has opened and not closed
    wire,    \* the connection behind HelperClient.socket: timeout, owed responses
    connected, \* HelperClient.connected
    lastError, \* HelperClient.last_error
    lock,    \* HelperClient.lock: "free" or the thread that holds it
    slept,   \* tenths of a second connect() has slept in its current call
    cl       \* per front-end thread: its call into the HelperClient

ecVars == <<hwcfg, hw, ecst, ec>>
fileVars == <<pidFile, sockFile, srvSock, eink>>
daemonVars == <<running, mainpc, exitCode, pidFile, sockFile, srvSock, eink, wd, now, sd, hnd>>
clientVars == <<csock, transports, wire, connected, lastError, lock, slept, cl>>
vars == <<hwcfg, hw, ecst, ec, prev, running, mainpc, exitCode, pidFile, sockFile, srvSock,
          eink, wd, now, sd, hnd, csock, transports, wire,
          connected, lastError, lock, slept, cl>>

(***************************************************************************)
(* The EC hardware behind the two ports.                                   *)
(***************************************************************************)
\* a byte the hardware may hold that no accepted set contains
JunkByte == 255

\* how the power register takes a write: it keeps the written value, it
\* settles to the second accepted value, or it holds something else
HwConfigs ==
    [responsive : BOOLEAN,
     settle     : {"written", "settled", "junk"},
     brightOk   : BOOLEAN]

\* polls for which a status flag keeps the host waiting: at once, at the last
\* poll of the window, or not within the window
FastPolls == 0
SlowPolls == (TIMEOUT_US \div POLL_DELAY_US) - 1
StuckPolls == TIMEOUT_US \div POLL_DELAY_US
PollDelays == IF hwcfg.responsive THEN {FastPolls, SlowPolls}
              ELSE {FastPolls, SlowPolls, StuckPolls}

\* value a register holds after the EC accepted a write of x to address a
HwStore(a, x, old) ==
    IF a = REG_POWER
    THEN (IF hwcfg.settle = "junk" THEN JunkByte
          ELSE IF hwcfg.settle = "written" THEN x
          ELSE IF x = POWER_ON THEN POWER_ON_SETTLED
          ELSE IF x = POWER_OFF THEN POWER_OFF_SETTLED ELSE x)
    ELSE (IF hwcfg.brightOk THEN x ELSE old)

Registers == {REG_BRIGHTNESS, REG_POWER}

\* outb(cmd, EC_SC_PORT)
HwOutCmd(h, cmd) ==
    [h EXCEPT !.mode = IF cmd = EC_CMD_READ THEN "rd"
                       ELSE IF cmd = EC_CMD_WRITE THEN "wr" ELSE "idle"]

\* outb(x, EC_DATA_PORT)
HwOutData(h, x) ==
    CASE h.mode = "rd" ->
           [h EXCEPT !.mode = "idle",
                     !.data = IF x \in Registers THEN h.reg[x] ELSE 0]
      [] h.mode = "wr" ->
           [h EXCEPT !.mode = "wraddr", !.addr = x]
      [] h.mode = "wraddr" ->
           [h EXCEPT !.mode = "idle",
                     !.reg = IF h.addr \in Registers
                             THEN [h.reg EXCEPT ![h.addr] = HwStore(h.addr, x, @)]
                             ELSE h.reg]
      [] OTHER -> h

HwInit ==
    [mode |-> "idle", addr |-> 0, data |-> 0,
     reg |-> [r \in Registers |-> IF r = REG_POWER THEN POWER_OFF ELSE 0]]

(***************************************************************************)
(* ECController.__init__: _check_secure_boot, then _init_ports.            *)
(***************************************************************************)
\* what the constructor meets: mokutil's answer, ioperm's answer and the
\* answer of the read-only probe of the status port
InitOutcomes ==
    [secureBoot : BOOLEAN, ioperm : {"granted", "PermissionError"},
     probe : BOOLEAN]

\* the flags and error_message the constructor leaves, with what it did on the
\* way: `requested` says that portio.ioperm was called, `granted` that it
\* returned, `verified` that _verify_port_access read the status port
EcState(sb, access, msg, requested, granted, verified) ==
    [secure_boot_enabled |-> sb, access_available |-> access, error_message |-> msg,
     requested |-> requested, granted |-> granted, verified |-> verified]

\* _init_ports: no port request under Secure Boot; access is available when
\* ioperm granted both ports and the probe read them
InitPortsBug(o) ==
    IF o.secureBoot
    THEN EcState(TRUE, FALSE, "Secure Boot is enabled", FALSE, FALSE, FALSE)
    ELSE IF o.ioperm # "granted"
    THEN EcState(FALSE, FALSE, "Permission denied", TRUE, FALSE, FALSE)
    ELSE EcState(FALSE, TRUE, "None", TRUE, TRUE, o.probe)

InitPorts(o) ==
    IF o.secureBoot
    THEN EcState(TRUE, FALSE, "Secure Boot is enabled", FALSE, FALSE, FALSE)
    ELSE IF o.ioperm # "granted"
    THEN EcState(FALSE, FALSE, "Permission denied", TRUE, FALSE, FALSE)
    ELSE IF o.probe
    THEN EcState(FALSE, TRUE, "None", TRUE, TRUE, TRUE)
    ELSE EcState(FALSE, FALSE, "Failed to initialize EC access", TRUE, TRUE, FALSE)

\* the constructor found Secure Boot off, got the ports and read them
AccessGranted == InitPorts([secureBoot |-> FALSE, ioperm |-> "granted", probe |-> TRUE])

(***************************************************************************)
(* ECController: polling gates.                                            *)
(***************************************************************************)
\* _wait_ibf_clear / _wait_obf_set against a flag that turns after d polls:
\* the loop polls while waited < TIMEOUT_US, adding POLL_DELAY_US per poll
WaitOk(d) == d * POLL_DELAY_US < TIMEOUT_US

StatusRead == <<"in", EC_SC_PORT, 0>>
OutB(x, port) == <<"out", port, x>>
InB(port, x) == <<"in", port, x>>

\* the dict get_access_status returns
AccessStatus(st) ==
    [available |-> st.access_available, secure_boot_enabled |-> st.secure_boot_enabled,
     error_message |-> st.error_message]
NoStatus == [available |-> FALSE, secure_boot_enabled |-> FALSE, error_message |-> ""]

NoResult ==
    [kind |-> "none", success |-> FALSE, readback |-> 0, exc |-> "none", status |-> NoStatus]
Returned(s, rb) == [NoResult EXCEPT !.kind = "return", !.success = s, !.readback = rb]
Raised(e) == [NoResult EXCEPT !.kind = "raise", !.exc = e]
\* get_frontlight_state's results: True or False with the byte read, or None
StateIs(b, rb) == [NoResult EXCEPT !.kind = "state", !.success = b, !.readback = rb]
StateNone == [NoResult EXCEPT !.kind = "None"]
\* read_brightness's result: the level, with the byte read
LevelIs(rb) == [NoResult EXCEPT !.kind = "level", !.success = TRUE, !.readback = rb]
\* get_access_status's result
StatusIs(st) == [NoResult EXCEPT !.kind = "status", !.status = AccessStatus(st)]

IdleCall ==
    [pc |-> "idle", op |-> "none", arg |-> None, phase |-> "main",
     rb |-> 0, res |-> NoResult, ports |-> <<>>, waited |-> 0, polls |-> 0]

\* the direct caller has made no call yet
NoPrev == [op |-> "none", kind |-> "none", success |-> FALSE, reg |-> HwInit.reg]

\* the write_and_verify the thread is in: the chained one is set_brightness's
WavAddr(t) ==
    IF ec[t].op \in {"set_brightness", "read_brightness"} \/ ec[t].phase = "chain"
    THEN REG_BRIGHTNESS ELSE REG_POWER

WavValue(t) ==
    IF ec[t].op = "set_brightness" \/ ec[t].phase = "chain"
    THEN ec[t].arg * LEVEL_STEP
    ELSE IF ec[t].op = "enable_frontlight" THEN POWER_ON ELSE POWER_OFF

\* set_brightness's range check
LevelValidBug(level) == level >= 0 /\ level <= MAX_LEVEL + 1
LevelValid(level) == level >= 0 /\ level <= MAX_LEVEL

\* the accepted readbacks of the two power writes
EnableAcceptsBug(rb) == rb = POWER_ON_SETTLED
EnableAccepts(rb) == rb = POWER_ON_SETTLED \/ rb = POWER_ON
DisableAcceptsBug(rb) == rb = POWER_OFF
DisableAccepts(rb) == rb = POWER_OFF \/ rb = POWER_OFF_SETTLED
\* the power value get_frontlight_state takes for enabled
StateEnabledBug(rb) == rb = POWER_ON
StateEnabled(rb) == rb = POWER_ON_SETTLED

(***************************************************************************)
(* ECController: entry of the three write operations.                      *)
(***************************************************************************)
CallSetBrightness(t, level) ==
    /\ ec[t].pc = "idle"
    /\ ec' = [ec EXCEPT ![t] =
                IF LevelValid(level)
                THEN [IdleCall EXCEPT !.pc = "w1", !.op = "set_brightness", !.arg = level]
                ELSE [IdleCall EXCEPT !.pc = "done", !.op = "set_brightness",
                                      !.arg = level, !.res = Raised("ValueError")]]
    /\ UNCHANGED <<hwcfg, hw, ecst>>

CallEnableFrontlight(t, level) ==
    /\ ec[t].pc = "idle"
    /\ ec' = [ec EXCEPT ![t] =
                [IdleCall EXCEPT !.pc = "w1", !.op = "enable_frontlight", !.arg = level]]
    /\ UNCHANGED <<hwcfg, hw, ecst>>

CallDisableFrontlight(t) ==
    /\ ec[t].pc = "idle"
    /\ ec' = [ec EXCEPT ![t] =
                [IdleCall EXCEPT !.pc = "w1", !.op = "disable_frontlight"]]
    /\ UNCHANGED <<hwcfg, hw, ecst>>

\* the test the two read-only probes make before any port transfer
ProbeAllowedBug(st) == TRUE
ProbeAllowed(st) == st.access_available

\* get_frontlight_state: None without access, else read_byte(REG_POWER)
CallGetFrontlightState(t) ==
    /\ ec[t].pc = "idle"
    /\ ec' = [ec EXCEPT ![t] =
                IF ProbeAllowed(ecst)
                THEN [IdleCall EXCEPT !.pc = "r1", !.op = "get_frontlight_state"]
                ELSE [IdleCall EXCEPT !.pc = "done", !.op = "get_frontlight_state",
                                      !.res = StateNone]]
    /\ UNCHANGED <<hwcfg, hw, ecst>>

\* read_brightness: None without access, else read_byte(REG_BRIGHTNESS)
CallReadBrightness(t) ==
    /\ ec[t].pc = "idle"
    /\ ec' = [ec EXCEPT ![t] =
                IF ProbeAllowed(ecst)
                THEN [IdleCall EXCEPT !.pc = "r1", !.op = "read_brightness"]
                ELSE [IdleCall EXCEPT !.pc = "done", !.op = "read_brightness",
                                      !.res = StateNone]]
    /\ UNCHANGED <<hwcfg, hw, ecst>>

\* get_access_status: the three stored fields, no port transfer
CallGetAccessStatus(t) ==
    /\ ec[t].pc = "idle"
    /\ ec' = [ec EXCEPT ![t] =
                [IdleCall EXCEPT !.pc = "done", !.op = "get_access_status",
                                 !.res = StatusIs(ecst)]]
    /\ UNCHANGED <<hwcfg, hw, ecst>>

(***************************************************************************)
(* ECController.write_byte: four gates, three outputs.                     *)
(***************************************************************************)
\* a gate that timed out: the TimeoutError leaves every frame of the write
\* operations; get_frontlight_state and read_brightness catch it and return None
GateTimeoutBug(t) ==
    /\ ec' = [ec EXCEPT ![t].pc = "done",
                        ![t].res = Raised("TimeoutError"),
                        ![t].ports = @ \o <<StatusRead, OutB(0, EC_DATA_PORT)>>]
    /\ UNCHANGED <<hwcfg, hw, ecst>>

GateTimeout(t) ==
    /\ ec' = [ec EXCEPT ![t].pc = "done",
                        ![t].res = IF ec[t].op \in {"get_frontlight_state", "read_brightness"}
                                   THEN StateNone ELSE Raised("TimeoutError"),
                        ![t].ports = Append(@, StatusRead)]
    /\ UNCHANGED <<hwcfg, hw, ecst>>

\* wait for IBF clear, then one outb; `cmd` says which port takes it; the
\* loop's waited (and the count of its polls) is gone when the loop returns
GatedOut(t, from, to, x, cmd) ==
    /\ ec[t].pc = from
    /\ \E d \in PollDelays :
         IF WaitOk(d)
         THEN /\ ec' = [ec EXCEPT ![t].pc = to, ![t].waited = 0, ![t].polls = 0,
                                  ![t].ports = @ \o <<StatusRead,
                                      OutB(x, IF cmd THEN EC_SC_PORT ELSE EC_DATA_PORT)>>]
              /\ hw' = IF cmd THEN HwOutCmd(hw, x) ELSE HwOutData(hw, x)
              /\ UNCHANGED <<hwcfg, ecst>>
         ELSE GateTimeout(t)

WriteCmd(t) == GatedOut(t, "w1", "w2", EC_CMD_WRITE, TRUE)
WriteAddr(t) == GatedOut(t, "w2", "w3", WavAddr(t), FALSE)
WriteValue(t) == GatedOut(t, "w3", "w4", WavValue(t), FALSE)

\* the fourth gate of write_byte, then write_and_verify's sleep
WriteAck(t) ==
    /\ ec[t].pc = "w4"
    /\ \E d \in PollDelays :
         IF WaitOk(d)
         THEN /\ ec' = [ec EXCEPT ![t].pc = "r1", ![t].waited = 0, ![t].polls = 0,
                                  ![t].ports = Append(@, StatusRead)]
              /\ UNCHANGED <<hwcfg, hw, ecst>>
         ELSE GateTimeout(t)

(***************************************************************************)
(* ECController.read_byte, and what the caller does with the readback.     *)
(***************************************************************************)
ReadCmd(t) == GatedOut(t, "r1", "r2", EC_CMD_READ, TRUE)
ReadAddr(t) == GatedOut(t, "r2", "r3", WavAddr(t), FALSE)

\* set_brightness after write_and_verify returned rb
AfterSetBrightness(c, rb) ==
    [c EXCEPT !.pc = "done", !.rb = rb,
              !.res = Returned(rb = c.arg * LEVEL_STEP, rb)]

\* enable_frontlight after write_and_verify returned rb
AfterEnable(c, rb) ==
    IF EnableAccepts(rb) /\ c.arg # None
    THEN (IF LevelValid(c.arg)
          THEN [c EXCEPT !.pc = "w1", !.phase = "chain", !.rb = rb]
          ELSE [c EXCEPT !.pc = "done", !.phase = "chain", !.rb = rb,
                         !.res = Raised("ValueError")])
    ELSE [c EXCEPT !.pc = "done", !.rb = rb, !.res = Returned(EnableAccepts(rb), rb)]

\* enable_frontlight after the chained set_brightness returned
AfterChain(c, rb) ==
    [c EXCEPT !.pc = "done", !.res = Returned(TRUE, c.rb)]

\* disable_frontlight after write_and_verify returned rb
AfterDisable(c, rb) ==
    [c EXCEPT !.pc = "done", !.rb = rb, !.res = Returned(DisableAccepts(rb), rb)]

\* get_frontlight_state after read_byte returned rb
AfterGetState(c, rb) ==
    [c EXCEPT !.pc = "done", !.rb = rb, !.res = StateIs(StateEnabled(rb), rb)]

\* read_brightness after read_byte returned rb: level = ec_value // 4
AfterReadBrightness(c, rb) ==
    [c EXCEPT !.pc = "done", !.rb = rb, !.res = LevelIs(rb \div LEVEL_STEP)]

AfterVerify(c, rb) ==
    IF c.op = "get_frontlight_state" THEN AfterGetState(c, rb)
    ELSE IF c.op = "read_brightness" THEN AfterReadBrightness(c, rb)
    ELSE IF c.phase = "chain" THEN AfterChain(c, rb)
    ELSE IF c.op = "set_brightness" THEN AfterSetBrightness(c, rb)
    ELSE IF c.op = "enable_frontlight" THEN AfterEnable(c, rb)
    ELSE AfterDisable(c, rb)

\* wait for OBF set, inb from the data port, return through write_and_verify
ReadData(t) ==
    /\ ec[t].pc = "r3"
    /\ \E d \in PollDelays :
         IF WaitOk(d)
         THEN /\ ec' = [ec EXCEPT ![t] =
                          AfterVerify([ec[t] EXCEPT !.waited = 0, !.polls = 0, !.ports = @ \o
                                         <<StatusRead, InB(EC_DATA_PORT, hw.data)>>],
                                      hw.data)]
              /\ UNCHANGED <<hwcfg, hw, ecst>>
         ELSE GateTimeout(t)

EcStep(t) ==
    \/ WriteCmd(t)
    \/ WriteAddr(t)
    \/ WriteValue(t)
    \/ WriteAck(t)
    \/ ReadCmd(t)
    \/ ReadAddr(t)
    \/ ReadData(t)

(***************************************************************************)
(* HelperClient: the session of the unprivileged front-end.                *)
(***************************************************************************)
MAX_RETRIES == 3
\* RETRY_DELAYS, in tenths of a second
RETRY_DELAYS == <<5, 10, 20>>

\* the threads of the front-end that use the one HelperClient
Callers == {"u1", "u2"}

\* the 1 MB limit of send_command, in bytes
MAX_MESSAGE == 1024 * 1024
\* the length of an ordinary request or response
SmallMessage == 40
RequestSizes == {SmallMessage, MAX_MESSAGE, MAX_MESSAGE + 1}
\* what a response's length prefix may say
ResponseLengths == {0, SmallMessage, MAX_MESSAGE, MAX_MESSAGE + 1}

\* a thread's call: `size` is the length of the encoded request, `sent` counts
\* the times the request frame was handed to sendall, `rlen` is the response
\* length read from the prefix (-1: none read), `payload` says that the
\* response payload was read from the socket, `err` is the error raised
\* `from` names the caller whose request the response read was the answer to
IdleCaller == [pc |-> "idle", op |-> "none", nested |-> FALSE, cmd |-> "",
               attempt |-> 0, res |-> "none", size |-> 0, sent |-> 0,
               rlen |-> 0 - 1, payload |-> FALSE, err |-> "none", from |-> "none"]

\* the connection of a socket that connect() has just set up: setblocking(True)
\* has cleared the timeout, no request is unanswered, the peer is there;
\* `malformed` remembers that the peer has sent a frame outside the protocol
FreshWire(w) == [timeout |-> "None", owed |-> <<>>, alive |-> TRUE,
                 malformed |-> w.malformed]
NoWire == [timeout |-> "None", owed |-> <<>>, alive |-> TRUE, malformed |-> FALSE]

\* HelperClient.__init__
ClientConstructed ==
    /\ csock = "none"
    /\ transports = 0
    /\ wire = NoWire
    /\ connected = FALSE
    /\ lastError = "None"
    /\ lock = "free"
    /\ slept = 0
    /\ cl = [u \in Callers |-> IdleCaller]

\* _close_socket: a held socket is shut down and closed, the handle dropped
CloseSocket(s) == "none"
\* open sockets left of n after _close_socket on handle s
AfterCloseLeaky(s, n) == n
AfterClose(s, n) == IF s # "none" THEN n - 1 ELSE n

(***************************************************************************)
(* HelperClient.connect: it does not take the lock.                        *)
(***************************************************************************)
ConnectCall(u) ==
    /\ cl[u].pc = "idle"
    /\ cl' = [cl EXCEPT ![u] = [IdleCaller EXCEPT !.pc = "attempt", !.op = "connect"]]
    /\ slept' = 0
    /\ UNCHANGED <<csock, transports, wire, connected, lastError, lock>>

\* one turn of the retry loop: close the old socket, open and connect a new one
ConnectAttempt(u) ==
    /\ cl[u].pc = "attempt"
    /\ \E outcome \in {"ok", "socket.error", "Exception"} :
         CASE outcome = "ok" ->
                /\ csock' = "open"
                /\ transports' = AfterClose(csock, transports) + 1
                /\ wire' = FreshWire(wire)
                /\ connected' = TRUE
                /\ lastError' = "None"
                /\ cl' = [cl EXCEPT ![u].pc = "idle", ![u].res = "True"]
                /\ UNCHANGED slept
           [] outcome = "socket.error" ->
                /\ csock' = CloseSocket(csock)
                /\ transports' = AfterClose(csock, transports)
                /\ wire' = FreshWire(wire)
                /\ lastError' = "socket.error"
                /\ IF cl[u].attempt < MAX_RETRIES - 1
                   THEN /\ slept' = slept + RETRY_DELAYS[cl[u].attempt + 1]
                        /\ cl' = [cl EXCEPT ![u].attempt = @ + 1]
                        /\ UNCHANGED connected
                   ELSE /\ connected' = FALSE
                        /\ cl' = [cl EXCEPT ![u].pc = "idle", ![u].res = "False",
                                            ![u].attempt = @ + 1]
                        /\ UNCHANGED slept
           [] OTHER ->
                /\ csock' = CloseSocket(csock)
                /\ transports' = AfterClose(csock, transports)
                /\ wire' = FreshWire(wire)
                /\ lastError' = "Exception"
                /\ connected' = FALSE
                /\ cl' = [cl EXCEPT ![u].pc = "idle", ![u].res = "False",
                                    ![u].attempt = @ + 1]
                /\ UNCHANGED slept
    /\ UNCHANGED lock

(***************************************************************************)
(* HelperClient.send_command                                               *)
(***************************************************************************)
\* what ends a call: the outermost frame returns to the caller, a
\* send_command called by disconnect returns into disconnect
Leave(c, result) ==
    IF c.nested THEN [c EXCEPT !.pc = "dc_close", !.nested = FALSE]
    ELSE [c EXCEPT !.pc = "idle", !.res = result]

SendCall(u, cmd, size) ==
    /\ cl[u].pc = "idle"
    /\ cl' = [cl EXCEPT ![u] = [IdleCaller EXCEPT !.pc = "sc_check", !.size = size,
                                                  !.op = "send_command", !.cmd = cmd]]
    /\ UNCHANGED <<csock, transports, wire, connected, lastError, lock, slept>>

\* the session has an active connection
SessionUsableBug == csock # "none"
SessionUsable == connected /\ csock # "none"

\* if not self.connected or not self.socket: raise RuntimeError
SendCheck(u) ==
    /\ cl[u].pc = "sc_check"
    /\ cl' = [cl EXCEPT ![u] =
                IF SessionUsable
                THEN [@ EXCEPT !.pc = "sc_lock"]
                ELSE Leave([@ EXCEPT !.err = "Not connected to helper daemon"],
                           "NotConnected")]
    /\ UNCHANGED <<csock, transports, wire, connected, lastError, lock, slept>>

\* with self.lock: threading.Lock is not reentrant
LockFreeBug(u) == TRUE
LockFree(u) == lock = "free"

SendLock(u) ==
    /\ cl[u].pc = "sc_lock"
    /\ LockFree(u)
    /\ lock' = u
    /\ cl' = [cl EXCEPT ![u].pc = "sc_send"]
    /\ UNCHANGED <<csock, transports, wire, connected, lastError, slept>>

\* the except clauses, for the call as it stands in c: the session is marked
\* broken, last_error is set, the lock is released, the error is raised; what
\* became of the connection is the caller's to say
SendFailsKeep(u, err, c) ==
    /\ lock' = IF c.nested THEN lock ELSE "free"
    /\ cl' = [cl EXCEPT ![u] = Leave([c EXCEPT !.err = err], "raise")]
    /\ UNCHANGED <<csock, transports, slept, connected, lastError>>

SendFails(u, err, c) ==
    /\ connected' = FALSE
    /\ lastError' = err
    /\ lock' = IF c.nested THEN lock ELSE "free"
    /\ cl' = [cl EXCEPT ![u] = Leave([c EXCEPT !.err = err], "raise")]
    /\ UNCHANGED <<csock, transports, slept>>

\* the size checks of both directions
TooLargeBug(n) == n > MAX_MESSAGE + 1
TooLarge(n) == n > MAX_MESSAGE

\* what sendall and recv can meet on the connection: a timeout only on a
\* socket that has one, the peer's data only while the peer is there
SendOutcomes(w) ==
    {"socket.error"} \cup (IF w.alive THEN {"sent"} ELSE {})
                    \cup (IF w.timeout # "None" THEN {"socket.timeout"} ELSE {})
RecvOutcomes(w) ==
    {"closed"} \cup (IF w.alive /\ w.owed # <<>> THEN {"read"} ELSE {})
               \cup (IF w.timeout # "None" THEN {"socket.timeout"} ELSE {})
\* the peer is gone, or the socket failed
Dead(w) == [w EXCEPT !.alive = FALSE]

\* encode, check the size, send the prefixed frame with sendall
SendFrame(u) ==
    /\ cl[u].pc = "sc_send"
    /\ IF TooLarge(cl[u].size)
       THEN SendFails(u, "Message too large", cl[u]) /\ UNCHANGED wire
       ELSE \E outcome \in SendOutcomes(wire) :
              LET c == [cl[u] EXCEPT !.sent = @ + 1] IN
              CASE outcome = "sent" ->
                     /\ cl' = [cl EXCEPT ![u] = [c EXCEPT !.pc = "sc_recv"]]
                     /\ wire' = [wire EXCEPT !.owed = Append(@, u)]
                     /\ UNCHANGED <<csock, transports, connected, lastError, lock, slept>>
                [] outcome = "socket.error" ->
                     SendFails(u, outcome, c) /\ wire' = Dead(wire)
                [] OTHER -> SendFails(u, outcome, c) /\ UNCHANGED wire

\* _recv_exact(4): the length prefix of the response, or nothing
SendReceive(u) ==
    /\ cl[u].pc = "sc_recv"
    /\ \E header \in RecvOutcomes(wire) :
         CASE header = "read" ->
                /\ \E n \in ResponseLengths :
                     cl' = [cl EXCEPT ![u].pc = "sc_body", ![u].rlen = n,
                                      ![u].from = Head(wire.owed)]
                /\ UNCHANGED <<csock, transports, wire, connected, lastError, lock, slept>>
           [] header = "closed" ->
                SendFails(u, "Connection closed by helper", cl[u]) /\ wire' = Dead(wire)
           [] OTHER -> SendFails(u, header, cl[u]) /\ UNCHANGED wire

\* check the length, _recv_exact(response_length), json.loads
SendBody(u) ==
    /\ cl[u].pc = "sc_body"
    /\ IF TooLarge(cl[u].rlen)
       THEN /\ SendFails(u, "Response too large", cl[u])
            /\ wire' = [wire EXCEPT !.malformed = TRUE]
       ELSE IF cl[u].rlen = 0
       THEN /\ SendFails(u, "Connection closed by helper", cl[u])
            /\ wire' = [wire EXCEPT !.malformed = TRUE]
       ELSE \E body \in RecvOutcomes(wire) \cup
                        (IF wire.alive /\ wire.owed # <<>>
                         THEN {"Invalid JSON response"} ELSE {}) :
              LET c == [cl[u] EXCEPT !.payload = TRUE] IN
              CASE body = "read" ->
                     /\ cl' = [cl EXCEPT ![u] = Leave(c, "response")]
                     /\ lock' = IF c.nested THEN lock ELSE "free"
                     /\ wire' = [wire EXCEPT !.owed = Tail(@)]
                     /\ UNCHANGED <<csock, transports, connected, lastError, slept>>
                [] body = "Invalid JSON response" ->
                     /\ SendFails(u, body, c)
                     /\ wire' = [wire EXCEPT !.owed = Tail(@), !.malformed = TRUE]
                [] body = "closed" ->
                     SendFails(u, "Connection closed by helper", c) /\ wire' = Dead(wire)
                [] OTHER -> SendFails(u, body, c) /\ UNCHANGED wire

(***************************************************************************)
(* HelperClient.disconnect                                                 *)
(***************************************************************************)
DisconnectCall(u) ==
    /\ cl[u].pc = "idle"
    /\ cl' = [cl EXCEPT ![u] = [IdleCaller EXCEPT !.pc = "dc_lock", !.op = "disconnect"]]
    /\ UNCHANGED <<csock, transports, wire, connected, lastError, lock, slept>>

\* with self.lock: if self.socket: self.send_command('shutdown')
DisconnectLock(u) ==
    /\ cl[u].pc = "dc_lock"
    /\ lock = "free"
    /\ lock' = u
    /\ cl' = [cl EXCEPT ![u] =
                IF csock # "none"
                THEN [@ EXCEPT !.pc = "sc_check", !.nested = TRUE, !.cmd = "shutdown"]
                ELSE [@ EXCEPT !.pc = "dc_end"]]
    /\ wire' = IF csock # "none" THEN [wire EXCEPT !.timeout = "2.0"] ELSE wire
    /\ UNCHANGED <<csock, transports, connected, lastError, slept>>

\* whatever send_command did is swallowed: self._close_socket()
DisconnectClose(u) ==
    /\ cl[u].pc = "dc_close"
    /\ csock' = CloseSocket(csock)
    /\ transports' = AfterClose(csock, transports)
    /\ wire' = FreshWire(wire)
    /\ cl' = [cl EXCEPT ![u].pc = "dc_end"]
    /\ UNCHANGED <<connected, lastError, lock, slept>>

\* self.connected = False; the lock is released
DisconnectEnd(u) ==
    /\ cl[u].pc = "dc_end"
    /\ connected' = FALSE
    /\ lock' = "free"
    /\ cl' = [cl EXCEPT ![u].pc = "idle", ![u].res = "None"]
    /\ UNCHANGED <<csock, transports, wire, lastError, slept>>

(***************************************************************************)
(* HelperDaemon: configuration, threads, inputs.                           *)
(***************************************************************************)
WATCHDOG_TIMEOUT == 20

\* the clock advances in steps of half the watchdog timeout, up to MaxTime
TickLen == WATCHDOG_TIMEOUT \div 2
MaxTime == 30
\* request frames one connection carries, in Spec and in SpecServe
MaxCmds == 2
ServeCmds == 1

\* the threading.Timer a handler starts for a 'shutdown' command
TimerOf(c) == IF c = "c1" THEN "tm1" ELSE "tm2"
Timers == {TimerOf(c) : c \in Clients}
\* who calls HelperDaemon.shutdown: the watchdog's thread, the signal handler,
\* run()'s finally clause, the 'shutdown' timers
ShutdownCallers == {"wd", "sig", "main"} \cup Timers

\* places of a caller inside shutdown(): the guard, then the body
BodyPcs == {"set", "cancel", "cleanup", "remove"}
\* the caller went past the guard
RanBody(t) == sd[t] \in BodyPcs \cup {"complete"}

\* a request frame: its payload decodes to a mapping, to another JSON value,
\* or not at all
\* params['level'] is a JSON value: form "int" is the integer `level` (or
\* absent when None), "float" the number level/10, "digits" the string of the
\* decimal digits of `level`, "text" a string that spells no number
FrameAs(cmd, level, form) ==
    [kind |-> "dict", cmd |-> cmd, level |-> level, form |-> form]
Frame(cmd, level) == FrameAs(cmd, level, "int")
NonDictFrame == [kind |-> "nondict", cmd |-> "", level |-> None, form |-> "int"]
UndecodableFrame == [kind |-> "undecodable", cmd |-> "", level |-> None, form |-> "int"]
NoFrame == [kind |-> "none", cmd |-> "", level |-> None, form |-> "int"]

\* Python's int(level): identity on integers, truncation toward zero on
\* floats, parsing on strings; ValueError on a string that spells no number
PyIntRaises(f) == f.form = "text"
PyInt(f) ==
    IF f.form = "float"
    THEN (IF f.level >= 0 THEN f.level \div 10 ELSE 0 - ((0 - f.level) \div 10))
    ELSE f.level

\* the commands handle_command passes to the panel controller
PanelCmds == {"enable-eink", "enable-oled", "refresh-eink", "refresh-eink-quick"}
\* the command names handle_command has a branch for
DispatchTable ==
    {"keepalive", "enable-frontlight", "disable-frontlight", "set-brightness",
     "shutdown"} \cup PanelCmds

\* the connections of the life-cycle specification
LifeClients == {"c1"}
LifeFrames == {Frame("keepalive", None), Frame("shutdown", None)}
EcFrames == {Frame("enable-frontlight", None), Frame("disable-frontlight", None),
             Frame("set-brightness", 5)}
ServeFrames ==
    EcFrames \cup
    {Frame("keepalive", None), Frame("set-brightness", None),
     Frame("set-brightness", MAX_LEVEL + 1), Frame("bogus", None),
     NonDictFrame, UndecodableFrame}

\* a response envelope; "None" is JSON null, "absent" a key that is not there
NoResponse == [success |-> FALSE, error |-> "absent", message |-> "absent"]
Success(msg) == [success |-> TRUE, error |-> "None", message |-> msg]
\* handle_command's except clause
FailureSwallowed(err) == [success |-> FALSE, error |-> "None", message |-> "absent"]
Failure(err) == [success |-> FALSE, error |-> err, message |-> "absent"]
\* a readback mismatch: success false, error left at None, a message
Mismatch(msg) == [success |-> FALSE, error |-> "None", message |-> msg]

\* struct.pack('!I', n) and struct.unpack('!I', b)[0]: four bytes, big-endian
Pack(n) == <<n \div 16777216, (n \div 65536) % 256, (n \div 256) % 256, n % 256>>
Unpack(b) == ((b[1] * 256 + b[2]) * 256 + b[3]) * 256 + b[4]

\* the bytes a client has written to the connection and the handler has not
\* read: what is left of the length prefix, the count of payload bytes left,
\* and the request the payload encodes
Stream(hdr, body, req) == [hdr |-> hdr, body |-> body, req |-> req]
NoStream == Stream(<<>>, 0, NoFrame)

\* `panel` is the panel-controller operation the current command invoked,
\* `raised` says that the EC or panel operation of the last command raised;
\* `in` is the connection's unread input, `want` the msg_length unpacked from
\* the prefix (-1: none), `got` is len(data), `chunks` counts the recv calls
\* that filled data
IdleHandler == [pc |-> "unconnected", frame |-> NoFrame, resp |-> NoResponse,
                reset |-> FALSE, n |-> 0, panel |-> "none", raised |-> FALSE,
                in |-> NoStream, want |-> 0 - 1, got |-> 0, chunks |-> 0]

(***************************************************************************)
(* WatchdogTimer (its source file is not among the sources: after the      *)
(* specification, sections 3 and 4.2).                                     *)
(***************************************************************************)
\* armed at daemon start
WatchdogArmed(t) == [state |-> "armed", deadline |-> t + WATCHDOG_TIMEOUT, fires |-> 0]

\* reset() pushes the deadline forward; after firing or cancel it does nothing
WatchdogResetRearm(w, t) == [w EXCEPT !.state = "armed", !.deadline = t + WATCHDOG_TIMEOUT]
WatchdogReset(w, t) ==
    IF w.state = "armed" THEN [w EXCEPT !.deadline = t + WATCHDOG_TIMEOUT] ELSE w

\* cancel() permanently disarms
WatchdogCancel(w) == [w EXCEPT !.state = "cancelled"]

\* the timer is due
WatchdogDue == wd.state = "armed" /\ now >= wd.deadline

(***************************************************************************)
(* HelperDaemon.__init__                                                   *)
(***************************************************************************)
DaemonConstructed ==
    /\ running = FALSE
    /\ mainpc = "pidcheck"
    /\ exitCode = 0 - 1
    /\ srvSock = "none"
    /\ eink = "none"
    /\ wd = WatchdogArmed(0)
    /\ now = 0
    /\ sd = [t \in ShutdownCallers |-> "idle"]
    /\ hnd = [c \in Clients |-> IdleHandler]

(***************************************************************************)
(* HelperDaemon.shutdown, one caller's steps.                              *)
(***************************************************************************)
\* the signal handler runs on the main thread: the main thread's own code
\* waits while it runs
SigQuiet == sd["sig"] \in {"idle", "returned", "complete", "raised"}
CanStep(t) == t = "main" => SigQuiet

\* threading.Timer(0.1, ...): the delay has passed and the timer's thread
\* calls shutdown; nothing makes the handler that started it send first
SdTimerExpire(t) ==
    /\ sd[t] = "waiting"
    /\ sd' = [sd EXCEPT ![t] = "check"]
    /\ UNCHANGED <<running, wd, fileVars>>

\* if not self.running: return
SdCheckNoGuard(t) ==
    /\ sd[t] = "check"
    /\ CanStep(t)
    /\ sd' = [sd EXCEPT ![t] = "set"]
    /\ UNCHANGED <<running, wd, fileVars>>

SdCheck(t) ==
    /\ sd[t] = "check"
    /\ CanStep(t)
    /\ sd' = [sd EXCEPT ![t] = IF running THEN "set" ELSE "returned"]
    /\ UNCHANGED <<running, wd, fileVars>>

\* self.running = False
SdSet(t) ==
    /\ sd[t] = "set"
    /\ CanStep(t)
    /\ running' = FALSE
    /\ sd' = [sd EXCEPT ![t] = "cancel"]
    /\ UNCHANGED <<wd, fileVars>>

\* self.watchdog.cancel()
SdCancel(t) ==
    /\ sd[t] = "cancel"
    /\ CanStep(t)
    /\ wd' = WatchdogCancel(wd)
    /\ sd' = [sd EXCEPT ![t] = "cleanup"]
    /\ UNCHANGED <<running, fileVars>>

\* self.cleanup_hardware()
SdCleanup(t) ==
    /\ sd[t] = "cleanup"
    /\ CanStep(t)
    /\ eink' = IF eink = "none" THEN eink ELSE "disconnected"
    /\ sd' = [sd EXCEPT ![t] = "remove"]
    /\ UNCHANGED <<running, wd, pidFile, sockFile, srvSock>>

\* self._remove_socket(); self._remove_pid_file()
SdRemove(t) ==
    /\ sd[t] = "remove"
    /\ CanStep(t)
    /\ srvSock' = IF srvSock = "none" THEN srvSock ELSE "closed"
    /\ sockFile' = FALSE
    /\ pidFile' = "none"
    /\ sd' = [sd EXCEPT ![t] = "complete"]
    /\ UNCHANGED <<running, wd, eink>>

\* where an exception raised by the signal handler leaves the main thread:
\* inside the accept loop's try it is caught and the loop goes on; elsewhere
\* in run()'s try it makes run() return 1; in the finally clause it leaves run()
AfterHandlerRaised(pc) ==
    IF pc = "accepting" THEN "accept" ELSE IF pc = "accept" THEN "final" ELSE "exited"

\* self.cleanup_hardware() where self.eink.disconnect() raises: nothing in
\* cleanup_hardware or shutdown catches it, the caller leaves shutdown; a
\* timer's or the watchdog's thread ends, the main thread leaves run()
SdCleanupRaises(t) ==
    /\ sd[t] = "cleanup"
    /\ CanStep(t)
    /\ eink # "none"
    /\ sd' = [u \in ShutdownCallers |->
                IF u = t THEN "raised"
                ELSE IF t = "sig" /\ u = "main" /\ sd[u] \in BodyPcs \cup {"check"}
                THEN "raised" ELSE sd[u]]
    /\ mainpc' = IF t = "main" THEN "exited"
                 ELSE IF t = "sig" THEN AfterHandlerRaised(mainpc) ELSE mainpc
    /\ exitCode' = IF t = "main" \/ (t = "sig" /\ mainpc # "accepting") THEN 1 ELSE exitCode
    /\ UNCHANGED <<running, wd, fileVars, now, hnd, prev, ecVars, clientVars>>

ShutdownStep(t) ==
    /\ \/ SdTimerExpire(t)
       \/ SdCheck(t)
       \/ SdSet(t)
       \/ SdCancel(t)
       \/ SdCleanup(t)
       \/ SdRemove(t)
    /\ UNCHANGED <<mainpc, exitCode, now, hnd, prev, ecVars, clientVars>>

(***************************************************************************)
(* The callers of shutdown other than run().                               *)
(***************************************************************************)
\* the watchdog's timer reaches its deadline and calls its callback
WatchdogFire ==
    /\ WatchdogDue
    /\ wd' = [wd EXCEPT !.state = "fired", !.fires = @ + 1]
    /\ sd' = [sd EXCEPT !["wd"] = "check"]
    /\ UNCHANGED <<running, mainpc, exitCode, fileVars, now, hnd, prev, ecVars, clientVars>>

\* SIGINT or SIGTERM: _signal_handler calls shutdown on the main thread
Signal ==
    /\ sd["sig"] = "idle"
    /\ mainpc # "exited"
    /\ sd' = [sd EXCEPT !["sig"] = "check"]
    /\ UNCHANGED <<running, mainpc, exitCode, fileVars, wd, now, hnd, prev, ecVars, clientVars>>

\* time passes; the watchdog's timer does not sleep past its deadline
Tick ==
    /\ now < MaxTime
    /\ ~WatchdogDue
    /\ now' = now + TickLen
    /\ UNCHANGED <<running, mainpc, exitCode, fileVars, wd, sd, hnd, prev, ecVars, clientVars>>

(***************************************************************************)
(* HelperDaemon.run, the main thread.                                      *)
(***************************************************************************)
MainStep(pc) == mainpc = pc /\ SigQuiet

\* the liveness marker found at startup: os.kill(old_pid, 0) succeeds for a
\* marker that names a live process; a dead process (OSError) and content
\* that is no number (ValueError) make the marker stale
MarkerBlocksBug(p) == FALSE
MarkerBlocks(p) == p = "live"

RunPidCheck ==
    /\ MainStep("pidcheck")
    /\ IF MarkerBlocks(pidFile)
       THEN /\ exitCode' = 1
            /\ mainpc' = "final"
            /\ UNCHANGED pidFile
       ELSE /\ pidFile' = "none"
            /\ mainpc' = "create_pid"
            /\ UNCHANGED exitCode
    /\ UNCHANGED <<running, sockFile, srvSock, eink, wd, now, sd, hnd, prev, ecVars, clientVars>>

RunCreatePid ==
    /\ MainStep("create_pid")
    /\ pidFile' = "own"
    /\ mainpc' = "init_hw"
    /\ UNCHANGED <<running, exitCode, sockFile, srvSock, eink, wd, now, sd, hnd, prev, ecVars, clientVars>>

\* initialize_hardware: the panel controller's connect() may raise
RunInitHw ==
    /\ MainStep("init_hw")
    /\ \E ok \in BOOLEAN :
         IF ok
         THEN /\ eink' = "connected"
              /\ mainpc' = "create_socket"
              /\ UNCHANGED exitCode
         ELSE /\ eink' = "unconnected"
              /\ exitCode' = 1
              /\ mainpc' = "final"
    /\ UNCHANGED <<running, pidFile, sockFile, srvSock, wd, now, sd, hnd, prev, ecVars, clientVars>>

\* _create_socket: bind may raise, which run()'s except clause turns into 1
RunCreateSocket ==
    /\ MainStep("create_socket")
    /\ \E ok \in BOOLEAN :
         IF ok
         THEN /\ sockFile' = TRUE
              /\ srvSock' = "open"
              /\ mainpc' = "set_running"
              /\ UNCHANGED exitCode
         ELSE /\ sockFile' = FALSE
              /\ srvSock' = "open"
              /\ exitCode' = 1
              /\ mainpc' = "final"
    /\ UNCHANGED <<running, pidFile, eink, wd, now, sd, hnd, prev, ecVars, clientVars>>

RunSetRunning ==
    /\ MainStep("set_running")
    /\ running' = TRUE
    /\ mainpc' = "accept"
    /\ UNCHANGED <<exitCode, fileVars, wd, now, sd, hnd, prev, ecVars, clientVars>>

\* while self.running:
RunLoopCheck ==
    /\ MainStep("accept")
    /\ IF running
       THEN mainpc' = "accepting" /\ UNCHANGED exitCode
       ELSE mainpc' = "final" /\ exitCode' = 0
    /\ UNCHANGED <<running, fileVars, wd, now, sd, hnd, prev, ecVars, clientVars>>

\* accept() returns a connection: a handler thread is started for it
RunAccept(c) ==
    /\ MainStep("accepting")
    /\ srvSock = "open"
    /\ hnd[c].pc = "unconnected"
    /\ hnd' = [hnd EXCEPT ![c].pc = "loop"]
    /\ mainpc' = "accept"
    /\ UNCHANGED <<running, exitCode, fileVars, wd, now, sd, prev, ecVars, clientVars>>

\* accept() times out after a second
RunAcceptTimeout ==
    /\ MainStep("accepting")
    /\ srvSock = "open"
    /\ mainpc' = "accept"
    /\ UNCHANGED <<running, exitCode, fileVars, wd, now, sd, hnd, prev, ecVars, clientVars>>

\* accept() raises: break while serving, and the return after the loop is 0
RunAcceptError ==
    /\ MainStep("accepting")
    /\ IF running
       THEN mainpc' = "final" /\ exitCode' = 0
       ELSE mainpc' = "accept" /\ UNCHANGED exitCode
    /\ UNCHANGED <<running, fileVars, wd, now, sd, hnd, prev, ecVars, clientVars>>

\* finally: self.shutdown()
RunFinally ==
    /\ MainStep("final")
    /\ sd["main"] = "idle"
    /\ sd' = [sd EXCEPT !["main"] = "check"]
    /\ UNCHANGED <<running, mainpc, exitCode, fileVars, wd, now, hnd, prev, ecVars, clientVars>>

RunExit ==
    /\ MainStep("final")
    /\ sd["main"] \in {"returned", "complete"}
    /\ mainpc' = "exited"
    /\ UNCHANGED <<running, exitCode, fileVars, wd, now, sd, hnd, prev, ecVars, clientVars>>

RunStartup ==
    \/ RunPidCheck
    \/ RunCreatePid
    \/ RunInitHw
    \/ RunCreateSocket
    \/ RunSetRunning

RunServe(cs) ==
    \/ RunLoopCheck
    \/ \E c \in cs : RunAccept(c)
    \/ RunAcceptTimeout

RunEnd ==
    \/ RunAcceptError
    \/ RunFinally
    \/ RunExit

(***************************************************************************)
(* HelperDaemon.handle_client and handle_command, one thread per client.   *)
(***************************************************************************)
\* the handler threads are daemon threads: they end with the process, which
\* waits for the 'shutdown' timers
ProcessAlive ==
    mainpc # "exited" \/ \E t \in Timers : sd[t] \in BodyPcs \cup {"waiting", "check"}

\* while self.running:
HandlerLoop(c) ==
    /\ hnd[c].pc = "loop"
    /\ ProcessAlive
    /\ hnd' = [hnd EXCEPT ![c].pc = IF running THEN "recv" ELSE "closed"]
    /\ UNCHANGED <<running, mainpc, exitCode, fileVars, wd, now, sd, prev, ecVars, clientVars>>

\* a whole frame arrives in one piece and json.loads decodes it, or raises
\* (the byte-level steps are HandlerRecvHeader and HandlerRecvChunk)
HandlerRecv(c, f, max) ==
    /\ hnd[c].pc = "recv"
    /\ ProcessAlive
    /\ hnd[c].n < max
    /\ f.cmd = "shutdown" => sd[TimerOf(c)] = "idle"
    /\ hnd' = [hnd EXCEPT ![c] =
                 IF f.kind = "undecodable"
                 THEN [@ EXCEPT !.pc = "closed", !.frame = f, !.resp = NoResponse,
                                !.reset = FALSE, !.n = @ + 1, !.raised = FALSE]
                 ELSE [@ EXCEPT !.pc = "entry", !.frame = f, !.resp = NoResponse,
                                !.reset = FALSE, !.n = @ + 1, !.raised = FALSE]]
    /\ UNCHANGED <<running, mainpc, exitCode, fileVars, wd, now, sd, prev, ecVars, clientVars>>

\* recv returns nothing: the client closed the connection
HandlerEof(c) ==
    /\ hnd[c].pc = "recv"
    /\ ProcessAlive
    /\ hnd' = [hnd EXCEPT ![c].pc = "closed"]
    /\ UNCHANGED <<running, mainpc, exitCode, fileVars, wd, now, sd, prev, ecVars, clientVars>>

\* handle_command up to self.watchdog.reset(): command_data.get raises on a
\* payload that is no mapping, and the except clause answers
HandleEntry(c) ==
    /\ hnd[c].pc = "entry"
    /\ ProcessAlive
    /\ IF hnd[c].frame.kind = "nondict"
       THEN /\ hnd' = [hnd EXCEPT ![c].pc = "respond",
                                  ![c].resp = Failure("AttributeError")]
            /\ UNCHANGED wd
       ELSE /\ wd' = WatchdogReset(wd, now)
            /\ hnd' = [hnd EXCEPT ![c].pc = "dispatch", ![c].reset = TRUE]
    /\ UNCHANGED <<running, mainpc, exitCode, fileVars, now, sd, prev, ecVars, clientVars>>

\* the branches of handle_command that answer at once
DispatchPlain(c) ==
    LET f == hnd[c].frame IN
    /\ hnd[c].pc = "dispatch"
    /\ ProcessAlive
    /\ f.cmd \notin {"enable-frontlight", "disable-frontlight", "shutdown"} \cup PanelCmds
    /\ f.cmd = "set-brightness" => (f.level = None \/ PyIntRaises(f))
    /\ hnd' = [hnd EXCEPT ![c].pc = "respond",
                 ![c].resp = IF f.cmd = "keepalive" THEN Success("pong")
                             ELSE IF f.cmd = "set-brightness"
                             THEN (IF f.level = None
                                   THEN Failure("Missing 'level' parameter")
                                   ELSE Failure("invalid literal for int()"))
                             ELSE Failure("Unknown command: " \o f.cmd)]
    /\ UNCHANGED <<running, mainpc, exitCode, fileVars, wd, now, sd, prev, ecVars, clientVars>>

\* the branches that call the panel controller, which returns or raises
DispatchPanel(c) ==
    LET f == hnd[c].frame IN
    /\ hnd[c].pc = "dispatch"
    /\ ProcessAlive
    /\ f.cmd \in PanelCmds
    /\ \E ok \in BOOLEAN :
         hnd' = [hnd EXCEPT ![c].pc = "respond", ![c].panel = f.cmd,
                    ![c].raised = ~ok,
                    ![c].resp = IF ok THEN Success("panel done")
                                ELSE Failure("panel error")]
    /\ UNCHANGED <<running, mainpc, exitCode, fileVars, wd, now, sd, prev, ecVars, clientVars>>

\* 'shutdown': threading.Timer(0.1, self.shutdown).start()
DispatchShutdown(c) ==
    /\ hnd[c].pc = "dispatch"
    /\ ProcessAlive
    /\ hnd[c].frame.cmd = "shutdown"
    /\ sd' = [sd EXCEPT ![TimerOf(c)] = "waiting"]
    /\ hnd' = [hnd EXCEPT ![c].pc = "respond", ![c].resp = Success("Shutting down")]
    /\ UNCHANGED <<running, mainpc, exitCode, fileVars, wd, now, prev, ecVars, clientVars>>

\* the branches that call into the ECController
DispatchEc(c) ==
    LET f == hnd[c].frame IN
    /\ hnd[c].pc = "dispatch"
    /\ ProcessAlive
    /\ \/ f.cmd = "enable-frontlight" /\ CallEnableFrontlight(c, None)
       \/ f.cmd = "disable-frontlight" /\ CallDisableFrontlight(c)
       \/ /\ f.cmd = "set-brightness" /\ f.level # None /\ ~PyIntRaises(f)
          /\ CallSetBrightness(c, PyInt(f))
    /\ hnd' = [hnd EXCEPT ![c].pc = "ec"]
    /\ UNCHANGED <<running, mainpc, exitCode, fileVars, wd, now, sd, prev, clientVars>>

\* one gated transfer of the handler's register transaction
HandlerEcStep(c) ==
    /\ hnd[c].pc = "ec"
    /\ ProcessAlive
    /\ EcStep(c)
    /\ UNCHANGED <<daemonVars, prev, clientVars>>

\* the engine returned or raised: the response of the command
EcResponseBug(r) ==
    IF r.kind = "raise" THEN Mismatch("readback mismatch")
    ELSE IF r.success THEN Success("done")
    ELSE Mismatch("readback mismatch")

EcResponse(r) ==
    IF r.kind = "raise" THEN Failure(r.exc)
    ELSE IF r.success THEN Success("done")
    ELSE Mismatch("readback mismatch")

HandlerEcReturn(c) ==
    /\ hnd[c].pc = "ec"
    /\ ProcessAlive
    /\ ec[c].pc = "done"
    /\ hnd' = [hnd EXCEPT ![c].pc = "respond", ![c].resp = EcResponse(ec[c].res),
                          ![c].raised = (ec[c].res.kind = "raise")]
    /\ ec' = [ec EXCEPT ![c] = IdleCall]
    /\ UNCHANGED <<running, mainpc, exitCode, fileVars, wd, now, sd, prev, hwcfg, hw, ecst, clientVars>>

\* client_socket.sendall(response)
HandlerSend(c) ==
    /\ hnd[c].pc = "respond"
    /\ ProcessAlive
    /\ hnd' = [hnd EXCEPT ![c] = [IdleHandler EXCEPT !.pc = "loop", !.n = hnd[c].n,
                                                     !.raised = hnd[c].raised]]
    /\ UNCHANGED <<running, mainpc, exitCode, fileVars, wd, now, sd, prev, ecVars, clientVars>>

(***************************************************************************)
(* Spec: the daemon from construction to exit, with a client that sends    *)
(* 'keepalive' and 'shutdown', the watchdog, a signal and the clock.       *)
(***************************************************************************)
EcQuiet ==
    /\ hwcfg = [responsive |-> TRUE, settle |-> "settled", brightOk |-> TRUE]
    /\ hw = HwInit
    /\ ecst = AccessGranted
    /\ ec = [t \in EcThreads |-> IdleCall]
    /\ prev = NoPrev

\* what a start finds in /tmp: no marker, a stale one or a live daemon's; the
\* socket file of an earlier daemon may lie next to its marker
Init ==
    /\ DaemonConstructed
    /\ pidFile \in {"none", "stale", "live"}
    /\ sockFile \in BOOLEAN
    /\ pidFile = "none" => ~sockFile
    /\ EcQuiet
    /\ ClientConstructed

LifeHandler(c) ==
    \/ HandlerLoop(c)
    \/ \E f \in LifeFrames : HandlerRecv(c, f, MaxCmds)
    \/ HandlerEof(c)
    \/ HandleEntry(c)
    \/ DispatchPlain(c)
    \/ DispatchShutdown(c)
    \/ HandlerSend(c)

Next ==
    \/ RunStartup
    \/ RunServe(LifeClients)
    \/ RunEnd
    \/ Tick
    \/ WatchdogFire
    \/ Signal
    \/ \E t \in ShutdownCallers : ShutdownStep(t)
    \/ \E t \in ShutdownCallers : SdCleanupRaises(t)
    \/ \E c \in LifeClients : LifeHandler(c)

Spec == Init /\ [][Next]_vars

(***************************************************************************)
(* SpecServe: the daemon serving two connections that send every kind of   *)
(* request, before any shutdown.                                           *)
(***************************************************************************)
Serving ==
    /\ running = TRUE
    /\ mainpc = "accept"
    /\ exitCode = 0 - 1
    /\ pidFile = "own"
    /\ sockFile = TRUE
    /\ srvSock = "open"
    /\ eink = "connected"
    /\ wd = WatchdogArmed(0)
    /\ now = 0
    /\ sd = [t \in ShutdownCallers |-> "idle"]
    /\ hnd = [c \in Clients |-> IdleHandler]

\* the ECs the serving daemon is run on: responsive or not, the power
\* register settling or holding junk
ServeHwConfigs == {h \in HwConfigs : h.brightOk /\ h.settle # "written"}

InitServe ==
    /\ Serving
    /\ hwcfg \in ServeHwConfigs
    /\ hw = HwInit
    /\ ecst = AccessGranted
    /\ ec = [t \in EcThreads |-> IdleCall]
    /\ prev = NoPrev
    /\ ClientConstructed

ServeHandler(c) ==
    \/ HandlerLoop(c)
    \/ \E f \in ServeFrames : HandlerRecv(c, f, ServeCmds)
    \/ HandlerEof(c)
    \/ HandleEntry(c)
    \/ DispatchPlain(c)
    \/ DispatchEc(c)
    \/ HandlerEcStep(c)
    \/ HandlerEcReturn(c)
    \/ HandlerSend(c)

NextServe ==
    \/ RunServe(Clients)
    \/ \E c \in Clients : ServeHandler(c)

SpecServe == InitServe /\ [][NextServe]_vars

(***************************************************************************)
(* SpecCmd: the serving daemon with one connection that sends every kind   *)
(* of request, one after the other, and the shutdown a command schedules.  *)
(***************************************************************************)
\* request frames the connection carries
CmdCount == 2

\* levels in other JSON forms: 3.5, -0.5, 8.5 and 9.0 as floats, "5" and "abc"
OddLevelFrames ==
    {FrameAs("set-brightness", 35, "float"), FrameAs("set-brightness", 0 - 5, "float"),
     FrameAs("set-brightness", 85, "float"), FrameAs("set-brightness", 90, "float"),
     FrameAs("set-brightness", 5, "digits"), FrameAs("set-brightness", 0, "text")}

CmdFrames ==
    ServeFrames \cup OddLevelFrames \cup
    {Frame(cmd, None) : cmd \in PanelCmds \cup {"shutdown", "get-ec-status"}} \cup
    {Frame("set-brightness", 0 - 1), Frame("set-brightness", 0)}

InitCmd ==
    /\ Serving
    /\ hwcfg \in ServeHwConfigs
    /\ hw = HwInit
    /\ ecst = AccessGranted
    /\ ec = [t \in EcThreads |-> IdleCall]
    /\ prev = NoPrev
    /\ ClientConstructed

CmdHandler(c) ==
    \/ HandlerLoop(c)
    \/ \E f \in CmdFrames : HandlerRecv(c, f, CmdCount)
    \/ HandlerEof(c)
    \/ HandleEntry(c)
    \/ DispatchPlain(c)
    \/ DispatchPanel(c)
    \/ DispatchShutdown(c)
    \/ DispatchEc(c)
    \/ HandlerEcStep(c)
    \/ HandlerEcReturn(c)
    \/ HandlerSend(c)

NextCmd ==
    \/ RunServe(LifeClients)
    \/ RunEnd
    \/ \E t \in ShutdownCallers : ShutdownStep(t)
    \/ \E t \in ShutdownCallers : SdCleanupRaises(t)
    \/ \E c \in LifeClients : CmdHandler(c)

SpecCmd == InitCmd /\ [][NextCmd]_vars

(***************************************************************************)
(* SpecFrame: the serving daemon reads the bytes of request frames as the   *)
(* stream transport hands them over, piece by piece.                       *)
(***************************************************************************)
\* request frames the connection carries
FrameCount == 2
\* recv calls the transport may split one payload into
MaxChunks == 3

FramedRequests == {Frame("keepalive", None), Frame("set-brightness", 5)}

\* a client writes one request frame: the prefix is the packed length of the
\* encoded request; the client waits for the response before the next one
ClientWrite(c, f, size) ==
    /\ hnd[c].pc \in {"loop", "recv"}
    /\ ProcessAlive
    /\ hnd[c].in = NoStream
    /\ hnd[c].n < FrameCount
    /\ hnd' = [hnd EXCEPT ![c].in = Stream(Pack(size), size, f)]
    /\ UNCHANGED <<running, mainpc, exitCode, fileVars, wd, now, sd, prev, ecVars, clientVars>>

\* length_data = client_socket.recv(4) hands over k of the prefix bytes that
\* have arrived; struct.unpack raises on fewer than four, which ends the
\* handler in its except clause
HandlerRecvHeader(c, k) ==
    /\ hnd[c].pc = "recv"
    /\ ProcessAlive
    /\ k \in 1..Len(hnd[c].in.hdr)
    /\ hnd' = [hnd EXCEPT ![c] =
                 IF k < 4
                 THEN [@ EXCEPT !.pc = "closed", !.in.hdr = SubSeq(@, k + 1, Len(@)),
                                !.raised = FALSE]
                 ELSE [@ EXCEPT !.pc = "body", !.in.hdr = <<>>, !.want = Unpack(hnd[c].in.hdr),
                                !.got = 0, !.chunks = 0, !.raised = FALSE]]
    /\ UNCHANGED <<running, mainpc, exitCode, fileVars, wd, now, sd, prev, ecVars, clientVars>>

\* chunk = client_socket.recv(msg_length - len(data)); data += chunk; when
\* data is complete, json.loads(data.decode('utf-8'))
HandlerRecvChunk(c, k) ==
    LET h == hnd[c]
        left == h.want - h.got
    IN
    /\ h.pc = "body"
    /\ ProcessAlive
    /\ left > 0 /\ h.in.body > 0
    /\ k \in 1..left /\ k <= h.in.body
    /\ k < left => h.chunks < MaxChunks - 1
    /\ hnd' = [hnd EXCEPT ![c] =
                 IF k = left
                 THEN [@ EXCEPT !.pc = "entry", !.got = @ + k, !.chunks = @ + 1,
                                !.in.body = @ - k, !.frame = h.in.req,
                                !.resp = NoResponse, !.reset = FALSE, !.n = @ + 1]
                 ELSE [@ EXCEPT !.got = @ + k, !.chunks = @ + 1, !.in.body = @ - k]]
    /\ UNCHANGED <<running, mainpc, exitCode, fileVars, wd, now, sd, prev, ecVars, clientVars>>

\* the daemon serves whatever the engine's constructor found: initialize_hardware
\* does not look at access_available
BlockedBySecureBoot == InitPorts([secureBoot |-> TRUE, ioperm |-> "granted", probe |-> TRUE])

InitFrame ==
    /\ Serving
    /\ hwcfg \in ServeHwConfigs
    /\ hw = HwInit
    /\ ecst \in {AccessGranted, BlockedBySecureBoot}
    /\ ec = [t \in EcThreads |-> IdleCall]
    /\ prev = NoPrev
    /\ ClientConstructed

FrameHandler(c) ==
    \/ HandlerLoop(c)
    \/ \E f \in FramedRequests, size \in RequestSizes : ClientWrite(c, f, size)
    \/ \E k \in 1..4 : HandlerRecvHeader(c, k)
    \/ \E k \in {1, hnd[c].want - hnd[c].got} : HandlerRecvChunk(c, k)
    \/ HandleEntry(c)
    \/ DispatchPlain(c)
    \/ DispatchEc(c)
    \/ HandlerEcStep(c)
    \/ HandlerEcReturn(c)
    \/ HandlerSend(c)

NextFrame ==
    \/ RunServe(LifeClients)
    \/ \E c \in LifeClients : FrameHandler(c)

SpecFrame == InitFrame /\ [][NextFrame]_vars

(***************************************************************************)
(* SpecPoll: the handler's register transaction with the polling loops of  *)
(* _wait_ibf_clear and _wait_obf_set run poll by poll.                     *)
(***************************************************************************)
\* requests per connection
PollCmds == 1
PollFrames == {Frame("set-brightness", 5)}

\* the places of a call that are polling loops
GatePcs == {"w1", "w2", "w3", "w4", "r1", "r2", "r3"}

\* while waited < self.TIMEOUT_US
LoopRunsBug(waited) == TRUE
LoopRuns(waited) == waited < TIMEOUT_US

TimedOut(c) == c.pc = "done" /\ c.res = Raised("TimeoutError")

\* a poll that finds the flag not turned: sleep, waited += POLL_DELAY_US
PollBusy(c) ==
    /\ hnd[c].pc = "ec"
    /\ ProcessAlive
    /\ ec[c].pc \in GatePcs
    /\ ~hwcfg.responsive
    /\ LoopRuns(ec[c].waited)
    /\ ec' = [ec EXCEPT ![c].waited = @ + POLL_DELAY_US, ![c].polls = @ + 1]
    /\ UNCHANGED <<hwcfg, hw, ecst>>
    /\ UNCHANGED <<daemonVars, prev, clientVars>>

\* a poll that finds the flag turned: the loop returns and the gate's transfer
\* follows; the next loop starts from waited = 0
PollClear(c) ==
    /\ hnd[c].pc = "ec"
    /\ ProcessAlive
    /\ LoopRuns(ec[c].waited)
    /\ EcStep(c)
    /\ ~TimedOut(ec'[c])
    /\ UNCHANGED <<daemonVars, prev, clientVars>>

\* the loop ran out: raise TimeoutError
PollRaise(c) ==
    /\ hnd[c].pc = "ec"
    /\ ProcessAlive
    /\ ec[c].pc \in GatePcs
    /\ ~LoopRuns(ec[c].waited)
    /\ GateTimeout(c)
    /\ UNCHANGED <<daemonVars, prev, clientVars>>

\* one connection is accepted and its handler started; the main thread stays
\* in accept; the EC may leave any flag unturned
InitPoll ==
    /\ running = TRUE
    /\ mainpc = "accepting"
    /\ exitCode = 0 - 1
    /\ pidFile = "own"
    /\ sockFile = TRUE
    /\ srvSock = "open"
    /\ eink = "connected"
    /\ wd = WatchdogArmed(0)
    /\ now = 0
    /\ sd = [t \in ShutdownCallers |-> "idle"]
    /\ hnd = [c \in Clients |-> IF c \in LifeClients THEN [IdleHandler EXCEPT !.pc = "loop"]
                                 ELSE IdleHandler]
    /\ hwcfg = [responsive |-> FALSE, settle |-> "settled", brightOk |-> TRUE]
    /\ hw = HwInit
    /\ ecst = AccessGranted
    /\ ec = [t \in EcThreads |-> IdleCall]
    /\ prev = NoPrev
    /\ ClientConstructed

PollHandler(c) ==
    \/ HandlerLoop(c)
    \/ \E f \in PollFrames : HandlerRecv(c, f, PollCmds)
    \/ HandleEntry(c)
    \/ DispatchEc(c)
    \/ PollBusy(c)
    \/ PollClear(c)
    \/ PollRaise(c)
    \/ HandlerEcReturn(c)
    \/ HandlerSend(c)

NextPoll == \E c \in LifeClients : PollHandler(c)

\* the handler's thread is scheduled while it has a step to take
SpecPoll ==
    InitPoll /\ [][NextPoll]_vars /\ \A c \in LifeClients : WF_vars(PollHandler(c))

(***************************************************************************)
(* SpecClient: two threads of the front-end use one HelperClient.          *)
(***************************************************************************)
\* the command a caller sends; the session treats every command name alike
ClientCmds == {"keepalive"}

CallerStep(u) ==
    \/ ConnectCall(u)
    \/ ConnectAttempt(u)
    \/ \E cmd \in ClientCmds, size \in RequestSizes : SendCall(u, cmd, size)
    \/ SendCheck(u)
    \/ SendLock(u)
    \/ SendFrame(u)
    \/ SendReceive(u)
    \/ SendBody(u)
    \/ DisconnectCall(u)
    \/ DisconnectLock(u)
    \/ DisconnectClose(u)
    \/ DisconnectEnd(u)

InitClient ==
    /\ ClientConstructed
    /\ DaemonConstructed
    /\ pidFile = "none"
    /\ sockFile = FALSE
    /\ EcQuiet

NextClient ==
    \E u \in Callers : CallerStep(u) /\ UNCHANGED <<daemonVars, prev, ecVars>>

SpecClient == InitClient /\ [][NextClient]_vars

(***************************************************************************)
(* SpecEC: one caller drives the engine, call after call.                  *)
(***************************************************************************)

\* the engine is built on every kind of EC with access granted, and on a
\* well-behaved EC with each constructor outcome that denies access
ConstructedOn ==
    {<<h, AccessGranted>> : h \in HwConfigs} \cup
    {<<[responsive |-> TRUE, settle |-> "settled", brightOk |-> TRUE], InitPorts(o)>> :
        o \in InitOutcomes}

InitEC ==
    /\ \E c \in ConstructedOn : hwcfg = c[1] /\ ecst = c[2]
    /\ hw = HwInit
    /\ ec = [t \in EcThreads |-> IdleCall]
    /\ prev = NoPrev
    /\ DaemonConstructed
    /\ pidFile = "none"
    /\ sockFile = FALSE
    /\ ClientConstructed

DirectSetBrightness ==
    /\ UNCHANGED <<daemonVars, clientVars>>
    /\ \E level \in LevelInputs : CallSetBrightness("e", level)
    /\ UNCHANGED prev

DirectEnable ==
    /\ UNCHANGED <<daemonVars, clientVars>>
    /\ \E level \in ChainInputs : CallEnableFrontlight("e", level)
    /\ UNCHANGED prev

DirectDisable ==
    /\ UNCHANGED <<daemonVars, clientVars>>
    /\ CallDisableFrontlight("e")
    /\ UNCHANGED prev

DirectGetState ==
    /\ UNCHANGED <<daemonVars, clientVars>>
    /\ CallGetFrontlightState("e")
    /\ UNCHANGED prev

DirectReadBrightness ==
    /\ UNCHANGED <<daemonVars, clientVars>>
    /\ CallReadBrightness("e")
    /\ UNCHANGED prev

DirectGetAccessStatus ==
    /\ UNCHANGED <<daemonVars, clientVars>>
    /\ CallGetAccessStatus("e")
    /\ UNCHANGED prev

DirectStep ==
    /\ UNCHANGED <<daemonVars, clientVars>>
    /\ EcStep("e")
    /\ UNCHANGED prev

\* the caller takes the result; the engine is ready for the next call
DirectReturn ==
    /\ ec["e"].pc = "done"
    /\ prev' = [op |-> ec["e"].op, kind |-> ec["e"].res.kind,
                success |-> ec["e"].res.success, reg |-> hw.reg]
    /\ ec' = [ec EXCEPT !["e"] = [IdleCall EXCEPT !.op = "returned"]]
    /\ UNCHANGED <<hwcfg, hw, ecst>>
    /\ UNCHANGED <<daemonVars, clientVars>>

NextEC ==
    \/ DirectSetBrightness
    \/ DirectEnable
    \/ DirectDisable
    \/ DirectGetState
    \/ DirectReadBrightness
    \/ DirectGetAccessStatus
    \/ DirectStep
    \/ DirectReturn

SpecEC == InitEC /\ [][NextEC]_vars

(***************************************************************************)
(* Claims about the register engine, under SpecEC.                         *)
(***************************************************************************)
\* the port outputs of a call, in order
Outputs(log) == SelectSeq(log, LAMBDA e : e[1] = "out")
\* the port transfers of one complete write_and_verify
VerifyLen == 7 + 5 + 1
IsPrefix(s, u) == Len(s) <= Len(u) /\ SubSeq(u, 1, Len(s)) = s
\* what a complete write_and_verify of value x to register a puts out
VerifyOutputs(a, x) ==
    <<OutB(129, 102), OutB(a, 98), OutB(x, 98), OutB(128, 102), OutB(a, 98)>>

\* C8: set_brightness(level) with level in 0..8 writes level*4 to the brightness
\* register (0x35) and, when it returns, returns success = (readback = level*4)
\* with the byte read from the data port as readback; it raises nothing but a
\* handshake Timeout. With level outside 0..8 it raises ValueError and has made
\* no port read or write.
C8_SetBrightness ==
    LET c == ec["e"] IN
    (c.op = "set_brightness" /\ c.pc = "done") =>
        IF c.arg >= 0 /\ c.arg <= 8
        THEN /\ IsPrefix(Outputs(c.ports), VerifyOutputs(53, c.arg * 4))
             /\ c.res.kind = "return" =>
                  /\ Len(c.ports) = VerifyLen
                  /\ c.res.readback = c.ports[VerifyLen][3]
                  /\ c.res.success = (c.res.readback = c.arg * 4)
             /\ c.res.kind = "raise" => c.res.exc = "TimeoutError"
        ELSE /\ c.res = Raised("ValueError")
             /\ c.ports = <<>>

\* set_brightness(8) returned success with readback 32, right after a call with
\* a level outside the range was rejected
C8_Witness ==
    LET c == ec["e"] IN
    /\ c.op = "set_brightness" /\ c.pc = "done" /\ c.arg = 8
    /\ c.res = Returned(TRUE, 32)
    /\ prev.op = "set_brightness" /\ prev.kind = "raise"

\* C9: enable_frontlight writes 0x0A to the power register (0x25) and
\* disable_frontlight writes 0x05; once the power write_and_verify has gone
\* through all its gates the call returns (it does not raise) with the byte
\* read back, and success is true exactly when that byte is 0x06 or 0x0A for
\* enable, 0x05 or 0x09 for disable.
C9_PowerReadback ==
    LET c == ec["e"] IN
    (c.op \in {"enable_frontlight", "disable_frontlight"} /\ c.pc = "done"
        /\ c.phase = "main") =>
        /\ IsPrefix(Outputs(c.ports),
                    VerifyOutputs(37, IF c.op = "enable_frontlight" THEN 10 ELSE 5))
        /\ Len(c.ports) = VerifyLen =>
             /\ c.res.kind = "return"
             /\ c.res.readback = c.ports[VerifyLen][3]
             /\ c.res.success =
                  IF c.op = "enable_frontlight"
                  THEN c.res.readback \in {6, 10}
                  ELSE c.res.readback \in {5, 9}

\* enable_frontlight returned (FALSE, 0xFF): a readback outside the accepted set
C9_Witness ==
    LET c == ec["e"] IN
    /\ c.op = "enable_frontlight" /\ c.pc = "done"
    /\ Len(c.ports) = VerifyLen
    /\ c.res = Returned(FALSE, 255)

\* C10: on a responsive EC whose power register settles to an accepted disabled
\* value (0x05 or 0x09), two disable_frontlight calls in a row both return
\* success = true, neither raises, and the registers after the second call
\* equal the registers after the first.
C10_DisableIdempotent ==
    LET c == ec["e"] IN
    (hwcfg.responsive /\ hwcfg.settle # "junk"
        /\ prev.op = "disable_frontlight"
        /\ c.op = "disable_frontlight" /\ c.pc = "done") =>
        /\ prev.kind = "return" /\ prev.success
        /\ c.res.kind = "return" /\ c.res.success
        /\ hw.reg = prev.reg

\* the second of two disable calls returned success on an EC that reads back 0x09
C10_Witness ==
    LET c == ec["e"] IN
    /\ hwcfg.responsive /\ hwcfg.settle = "settled"
    /\ prev.op = "disable_frontlight" /\ prev.success
    /\ c.op = "disable_frontlight" /\ c.pc = "done"
    /\ c.res = Returned(TRUE, 9)

\* C11: with EC access available, get_frontlight_state() called right after
\* an enable_frontlight() that returned, on an EC whose power register settles
\* to 0x06, reports enabled (True); called right after a disable_frontlight()
\* that returned, it reports disabled (False). On a responsive EC it always
\* reports; only a handshake timeout of its own read makes it answer None.
C11_StateAfterToggle ==
    LET c == ec["e"] IN
    (ecst.access_available /\ c.op = "get_frontlight_state" /\ c.pc = "done"
        /\ prev.kind = "return") =>
        /\ (prev.op = "enable_frontlight" /\ hwcfg.settle = "settled") =>
              /\ c.res.kind = "state" => c.res = StateIs(TRUE, 6)
              /\ hwcfg.responsive => c.res.kind = "state"
        /\ prev.op = "disable_frontlight" =>
              /\ c.res.kind = "state" => ~c.res.success
              /\ hwcfg.responsive => c.res.kind = "state"

\* get_frontlight_state answered True with 0x06 read, right after an
\* enable_frontlight that returned success
C11_Witness ==
    LET c == ec["e"] IN
    /\ ecst.access_available /\ hwcfg.settle = "settled"
    /\ prev.op = "enable_frontlight" /\ prev.kind = "return" /\ prev.success
    /\ c.op = "get_frontlight_state" /\ c.pc = "done"
    /\ c.res = StateIs(TRUE, 6)

\* C12: when enable_frontlight(level) read back an accepted power value and
\* went on to the chained set_brightness(level), it returns (True, power
\* readback) whatever the chained call does (readback mismatch, invalid level,
\* handshake timeout).
C12_ChainFailureKept ==
    LET c == ec["e"] IN
    (c.op = "enable_frontlight" /\ c.pc = "done" /\ c.phase = "chain") =>
        c.res = Returned(TRUE, c.rb)

\* C30: access_available is true only if Secure Boot was found disabled, the
\* port access was granted and the read-only probe succeeded; under Secure
\* Boot no port access is requested; and no engine operation changes
\* access_available, secure_boot_enabled or error_message.
C30_AccessFixed ==
    /\ [](ecst.access_available =>
            (~ecst.secure_boot_enabled /\ ecst.granted /\ ecst.verified))
    /\ [](ecst.secure_boot_enabled => ~ecst.requested)
    /\ [][/\ ecst'.access_available = ecst.access_available
          /\ ecst'.secure_boot_enabled = ecst.secure_boot_enabled
          /\ ecst'.error_message = ecst.error_message]_vars

\* the engine with access has carried out a write and a state read, and the
\* flags are as the constructor left them
C30_Witness ==
    /\ ecst = AccessGranted
    /\ ecst.error_message = "None"
    /\ prev.op = "set_brightness"
    /\ ec["e"].op = "get_frontlight_state"
    /\ ec["e"].pc = "done"

(***************************************************************************)
(* Claims about the daemon's life cycle, under Spec.                       *)
(***************************************************************************)
\* C1: in every interleaving of the callers of shutdown (watchdog callback,
\* 'shutdown' timer, signal handler, run()'s finally clause) at most one caller
\* gets past the guard and executes the body of HelperDaemon.shutdown.
C1_ShutdownBodyOnce ==
    Cardinality({t \in ShutdownCallers : RanBody(t)}) <= 1

\* C4: the watchdog calls the shutdown routine when no command was dispatched
\* for WATCHDOG_TIMEOUT seconds after the last reset (or after arming), not
\* before, and it calls it once: an armed watchdog has not fired and its
\* deadline has not passed; a watchdog that fired has fired exactly once, at or
\* after its deadline, and has invoked shutdown.
C4_WatchdogFiresOnce ==
    /\ wd.fires <= 1
    /\ wd.state = "armed" => (wd.fires = 0 /\ now <= wd.deadline)
    /\ wd.state = "fired" => (wd.fires = 1 /\ now >= wd.deadline /\ sd["wd"] # "idle")
    /\ (wd.state # "cancelled" /\ now > wd.deadline) => wd.fires = 1
    /\ wd.fires = 0 => sd["wd"] = "idle"

\* a keepalive pushed the deadline to 30 s, the watchdog fired then and its
\* call of shutdown ran to the end
C4_Witness ==
    /\ wd.fires = 1
    /\ wd.deadline > WATCHDOG_TIMEOUT
    /\ now >= wd.deadline
    /\ sd["wd"] = "complete"

\* C5: once a run of the shutdown routine has cancelled the watchdog, the
\* watchdog stays cancelled and never fires, whatever resets client handlers
\* still make, and no call of shutdown that has yet to evaluate the guard
\* gets into the body: the deadline passing afterwards runs no second cleanup.
C5_NoShutdownAfterCancel ==
    [][wd.state = "cancelled" =>
         /\ wd'.state = "cancelled"
         /\ wd'.fires = wd.fires
         /\ \A t \in ShutdownCallers :
              sd[t] \in {"idle", "waiting", "check"} => sd'[t] \notin BodyPcs]_vars

\* the routine ran once, cancelled the watchdog before its deadline, the
\* deadline passed, and a later call of shutdown returned at the guard
C5_Witness ==
    /\ wd.state = "cancelled"
    /\ wd.fires = 0
    /\ now > wd.deadline
    /\ Cardinality({t \in ShutdownCallers : sd[t] = "complete"}) = 1
    /\ \E t \in ShutdownCallers : sd[t] = "returned"

\* C6: the daemon is always on its way to release: while it serves, either
\* the watchdog is still armed or a call of shutdown is pending, so that
\* without further commands it reaches Shutdown (a firing of the watchdog is
\* never lost); and a process that has ended has released what it took: its
\* liveness marker and its socket file are gone and the panel is disconnected.
C6_ReleaseGuaranteed ==
    /\ (running /\ mainpc \in {"accept", "accepting"}) =>
          \/ wd.state = "armed"
          \/ \E t \in ShutdownCallers : sd[t] \in {"waiting", "check", "set"}
    /\ ~ProcessAlive => (pidFile # "own" /\ ~sockFile /\ eink # "connected")

\* C25: run() returns a non-zero status when accept fails while the daemon
\* serves and when the startup hardware initialization fails, and zero when
\* the accept loop ends because running was cleared by a shutdown.
C25_ExitStatus ==
    [][/\ (mainpc = "accepting" /\ running /\ mainpc' = "final") => exitCode' # 0
       /\ (mainpc = "init_hw" /\ mainpc' = "final") => exitCode' # 0
       /\ (mainpc = "accept" /\ mainpc' = "final") => exitCode' = 0]_vars

\* C27: a start that finds a marker naming a live process refuses: it returns
\* failure, never initializes hardware, never creates a server socket, and
\* leaves the marker and the socket file as they are; a start that finds a
\* stale marker (dead process or unparsable content) removes it and goes on
\* to write its own.
C27_DuplicateRefused ==
    /\ [](pidFile = "live" =>
            /\ eink = "none" /\ srvSock = "none" /\ ~running
            /\ mainpc \in {"pidcheck", "final", "exited"}
            /\ mainpc # "pidcheck" => exitCode = 1)
    /\ [][pidFile = "live" => (pidFile' = "live" /\ sockFile' = sockFile)]_vars
    /\ [][(mainpc = "pidcheck" /\ pidFile = "stale" /\ mainpc' # "pidcheck") =>
            (pidFile' = "none" /\ mainpc' = "create_pid")]_vars

\* the refused start has returned 1 next to the live daemon's marker and
\* socket file
C27_Witness ==
    /\ pidFile = "live"
    /\ sockFile
    /\ mainpc = "exited"
    /\ exitCode = 1
    /\ sd["main"] = "returned"

\* C28: when run() has returned, a marker this run created is gone, and the
\* socket file of a run that bound the endpoint is gone, on every exit path.
C28_RemovedAtReturn ==
    mainpc = "exited" =>
        /\ pidFile # "own"
        /\ srvSock # "none" => ~sockFile

\* C29: once the handler of a SIGINT or SIGTERM has run, the daemon does not
\* enter or stay in Serving, whether the signal came during startup or while
\* serving.
C29_SignalEndsServing ==
    sd["sig"] \in {"returned", "complete"} =>
        ~(running /\ mainpc \in {"accept", "accepting"})

(***************************************************************************)
(* Claims about command handling, under SpecServe.                         *)
(***************************************************************************)
\* the thread has made a port transfer of a register transaction that is not
\* yet through
InTransaction(t) == ec[t].pc # "done" /\ ec[t].ports # <<>>

\* C2: at most one command's EC register transaction is in flight: the port
\* transfers of two handlers' write/read-back sequences never interleave.
C2_OneTransaction ==
    \A t1, t2 \in Clients : t1 # t2 => ~(InTransaction(t1) /\ InTransaction(t2))

\* C7: every command the daemon received has reset the watchdog before its
\* dispatch, its hardware operation or its response, whether it succeeds or
\* fails (a malformed envelope included).
C7_ResetBeforeDispatch ==
    \A c \in Clients :
        hnd[c].pc \in {"dispatch", "ec", "respond"} => hnd[c].reset

(***************************************************************************)
(* Claims about single commands, under SpecCmd.                            *)
(***************************************************************************)
\* C13: the dispatch of a command whose name is outside the dispatch table
\* answers success=false with the error "Unknown command: <name>"; the step
\* invokes no EC operation and no panel operation, starts no shutdown timer
\* and leaves the daemon serving.
C13_UnknownCommand ==
    [][\A c \in LifeClients :
          (hnd[c].pc = "dispatch" /\ hnd'[c].pc # "dispatch"
              /\ hnd[c].frame.cmd \notin DispatchTable) =>
             /\ hnd'[c].pc = "respond"
             /\ hnd'[c].resp = [success |-> FALSE, message |-> "absent",
                                error |-> "Unknown command: " \o hnd[c].frame.cmd]
             /\ hnd'[c].panel = "none"
             /\ ec'[c] = IdleCall /\ ec[c] = IdleCall
             /\ UNCHANGED <<hw, sd, running, mainpc, eink, sockFile, pidFile>>]_vars

\* 'get-ec-status' was answered "Unknown command: get-ec-status" and the
\* daemon serves on
C13_Witness ==
    /\ hnd["c1"].pc = "respond"
    /\ hnd["c1"].frame.cmd = "get-ec-status"
    /\ hnd["c1"].resp.error = "Unknown command: get-ec-status"
    /\ ~hnd["c1"].resp.success
    /\ running /\ mainpc \in {"accept", "accepting"}

\* C14: a 'set-brightness' command whose params lack 'level', or whose level
\* is not an integer in 0..8, makes no port read or write on the EC and is
\* answered success=false with an error.
C14_BadLevelNoPorts ==
    \A c \in LifeClients :
        LET f == hnd[c].frame IN
        (f.kind = "dict" /\ f.cmd = "set-brightness"
            /\ ~(f.form = "int" /\ f.level \in 0..MAX_LEVEL)) =>
            /\ ec[c].ports = <<>>
            /\ hnd[c].pc = "respond" =>
                  (~hnd[c].resp.success /\ hnd[c].resp.error # "None")

\* C15: the response to a 'shutdown' command is written to the connection
\* before the shutdown that the command scheduled starts executing and before
\* the process exits: while the response is still unsent, the timer's thread
\* has not entered the shutdown routine.
C15_ResponseBeforeShutdown ==
    \A c \in LifeClients :
        (hnd[c].frame.cmd = "shutdown" /\ hnd[c].pc = "respond") =>
            /\ sd[TimerOf(c)] = "waiting"
            /\ mainpc # "exited"

\* C24: a command whose EC operation or panel operation raised (handshake
\* timeout or any other error) is answered success=false with a non-empty
\* error; the failure does not leave handle_command: the response is sent, the
\* handler returns to its loop on the same connection, and the daemon's
\* serving state is not touched.
C24_FailureAnswered ==
    /\ [](\A c \in LifeClients :
            (hnd[c].pc = "respond" /\ hnd[c].raised) =>
                /\ ~hnd[c].resp.success
                /\ hnd[c].resp.error \notin {"None", "absent", ""})
    /\ [][\A c \in LifeClients :
            (hnd[c].raised /\ hnd[c].pc \in {"respond", "loop"} /\ hnd'[c] # hnd[c]) =>
                /\ hnd'[c].pc = IF hnd[c].pc = "respond" THEN "loop"
                                ELSE IF running THEN "recv" ELSE "closed"
                /\ UNCHANGED <<running, mainpc, srvSock>>]_vars

\* after a handshake timeout was answered, the handler waits for the next
\* request of the same connection and the daemon serves
C24_Witness ==
    /\ hnd["c1"].pc = "recv"
    /\ hnd["c1"].raised
    /\ hnd["c1"].n = 1
    /\ hnd["c1"].frame = NoFrame
    /\ ~hwcfg.responsive
    /\ running /\ mainpc \in {"accept", "accepting"}

\* C26: every response carries 'success'; with success=true it carries a
\* message that is not null, with success=false an error string that is not
\* null, a readback mismatch included.
C26_Envelope ==
    \A c \in LifeClients :
        hnd[c].pc = "respond" =>
            LET r == hnd[c].resp IN
            /\ r.success \in BOOLEAN
            /\ r.success => r.message \notin {"None", "absent"}
            /\ ~r.success => r.error \notin {"None", "absent"}

(***************************************************************************)
(* Claims about the client session, under SpecClient.                      *)
(***************************************************************************)
\* the thread waits for a lock that it holds itself: no step of any thread
\* will ever release it
SelfBlocked(u) == cl[u].pc = "sc_lock" /\ lock = u

\* C3: disconnect() returns in every session state (never connected,
\* connected, marked broken): a thread inside disconnect is never blocked for
\* good, and when disconnect has returned connected is false and no socket
\* handle is held.
C3_DisconnectReturns ==
    \A u \in Callers :
        /\ cl[u].op = "disconnect" => ~SelfBlocked(u)
        /\ (cl[u].op = "disconnect" /\ cl[u].pc = "idle"
              /\ \A v \in Callers \ {u} : cl[v].pc = "idle")
           => (~connected /\ csock = "none")

\* C16: a connect() all of whose three attempts failed with a socket error
\* has made exactly 3 attempts, has slept at least 0.5 + 1.0 + 2.0 = 3.5 s of
\* backoff in all, and returns False with connected=false and last_error set.
C16_BackoffTotal ==
    \A u \in Callers :
        (cl[u].op = "connect" /\ cl[u].pc = "idle" /\ cl[u].res = "False"
            /\ cl[u].attempt = 3
            /\ \A v \in Callers \ {u} : cl[v].op = "none") =>
            /\ slept >= 5 + 10 + 20
            /\ ~connected
            /\ lastError # "None"

\* C17: connect() returns True exactly when one of its at most 3 attempts
\* succeeded, and then connected=true, last_error is cleared and the new
\* socket is held; it returns False with connected=false, last_error set and
\* no socket held. Every attempt closes the socket held before, so that the
\* session never has more than one open transport.
C17_ConnectResult ==
    /\ [](transports <= 1 /\ (transports = 1 <=> csock = "open"))
    /\ [][\A u \in Callers :
            (cl[u].pc = "attempt" /\ cl'[u].pc = "idle") =>
               /\ cl'[u].res \in {"True", "False"}
               /\ cl'[u].res = "True" =>
                     /\ connected' /\ lastError' = "None" /\ csock' = "open"
                     /\ cl'[u].attempt < 3
               /\ cl'[u].res = "False" =>
                     /\ ~connected' /\ lastError' # "None" /\ csock' = "none"
                     /\ cl'[u].attempt <= 3]_vars

\* connect() returned True at its third attempt: the last_error of the two
\* failed attempts is cleared
C17_Witness ==
    \E u \in Callers :
        /\ cl[u].op = "connect" /\ cl[u].pc = "idle" /\ cl[u].res = "True"
        /\ cl[u].attempt = 2
        /\ connected /\ lastError = "None" /\ csock = "open" /\ transports = 1

C19_FailureIsFatal ==
    /\ [](\A u \in Callers : cl[u].sent <= 1)
    /\ [][\A u \in Callers :
            (cl[u].pc \in {"sc_send", "sc_recv", "sc_body"}
                /\ cl'[u].pc = "idle" /\ cl'[u].res = "raise") =>
               /\ ~connected'
               /\ lastError' # "None" /\ lastError' = cl'[u].err]_vars

\* a send_command sent its frame once, found the response undecodable and
\* raised; the session is marked broken
C19_Witness ==
    \E u \in Callers :
        /\ cl[u].op = "send_command" /\ cl[u].pc = "idle" /\ cl[u].res = "raise"
        /\ cl[u].err = "Invalid JSON response" /\ cl[u].sent = 1 /\ cl[u].payload
        /\ ~connected /\ lastError = "Invalid JSON response"

Exchanging(u) == cl[u].pc \in {"sc_send", "sc_recv", "sc_body"}

\* C23: with several threads in send_command on one HelperClient, a call's
\* request frame and the read of its response are one exclusive section: at
\* most one caller is inside, it holds the lock, and (as long as the daemon's
\* frames are well-formed) the response a caller reads and receives is the
\* answer to its own request.
C23_ExclusiveExchange ==
    /\ \A u, v \in Callers : (Exchanging(u) /\ Exchanging(v)) => u = v
    /\ \A u \in Callers : Exchanging(u) => lock = u
    /\ ~wire.malformed =>
          \A u \in Callers :
              /\ cl[u].pc = "sc_body" => cl[u].from = u
              /\ (cl[u].pc = "idle" /\ cl[u].res = "response") => cl[u].from = u

\* one caller reads the answer to its own request while the other, past the
\* connection check, waits for the lock
C23_Witness ==
    /\ cl["u2"].pc = "sc_body"
    /\ cl["u2"].from = "u2"
    /\ lock = "u2"
    /\ cl["u1"].pc = "sc_lock"
    /\ cl["u1"].op = "send_command"
    /\ ~wire.malformed

(***************************************************************************)
(* Claims about the framing of requests, under SpecFrame.                  *)
(***************************************************************************)
\* C21: the daemon enforces the 1 MiB limit on requests: a frame whose length
\* prefix says more than 1 MiB is a protocol error, none of its payload is
\* buffered and it is not dispatched.
C21_RequestLimit ==
    \A c \in LifeClients :
        hnd[c].want > MAX_MESSAGE =>
            /\ hnd[c].got = 0
            /\ hnd[c].pc \notin {"entry", "dispatch", "ec", "respond"}

\* C22: a request that was written as a frame with the packed length prefix
\* is decoded to the same command name and parameters however the transport
\* splits the bytes, a split inside the four prefix bytes included: the
\* handler does not give up on a frame that was written, and what it passes
\* to handle_command is what was written.
C22_RoundTrip ==
    \A c \in LifeClients :
        LET h == hnd[c] IN
        h.in.req # NoFrame =>
            /\ h.pc # "closed"
            /\ h.pc = "body" => h.want = h.got + h.in.body
            /\ h.pc \in {"entry", "dispatch", "ec", "respond"} => h.frame = h.in.req

(***************************************************************************)
(* Further claims about the register engine, under SpecEC.                 *)
(***************************************************************************)
\* C38: the write path and the read path agree on 'enabled': whenever
\* get_frontlight_state has read a power value that enable_frontlight accepts
\* as a successful readback it reports enabled, and whenever it has read a
\* value that disable_frontlight accepts it reports disabled.
C38_EnabledConsistent ==
    LET c == ec["e"] IN
    (c.op = "get_frontlight_state" /\ c.pc = "done" /\ c.res.kind = "state") =>
        /\ EnableAccepts(c.res.readback) => c.res.success
        /\ DisableAccepts(c.res.readback) => ~c.res.success

\* the port transfers of a complete write_byte(a, x): four observations of
\* the status port, an output after each of the first three
WriteTransfers(a, x) ==
    <<StatusRead, OutB(129, 102), StatusRead, OutB(a, 98), StatusRead, OutB(x, 98),
      StatusRead>>

\* the transfers of the write_and_verify the call is in: those of the chained
\* set_brightness follow a complete power write_and_verify
CurrentTransfers(c) ==
    IF c.phase = "chain" THEN SubSeq(c.ports, VerifyLen + 1, Len(c.ports)) ELSE c.ports

\* what the call's write_byte is to put out
ExpectedWrite(c) ==
    IF c.op = "set_brightness" \/ c.phase = "chain" THEN WriteTransfers(53, c.arg * 4)
    ELSE IF c.op = "enable_frontlight" THEN WriteTransfers(37, 10)
    ELSE WriteTransfers(37, 5)

\* C33: write_byte puts out the WRITE command on the command port, then the
\* address and the value on the data port, each after an observation of the
\* status port, and returns after a fourth observation; when gate k times out
\* the outputs of gates 1..k-1 are all that was put out, nothing follows, and
\* write_and_verify reads nothing back.
C33_WriteOrder ==
    /\ [](LET c == ec["e"]
              log == CurrentTransfers(c)
              w == ExpectedWrite(c)
          IN
          (c.op \in {"set_brightness", "enable_frontlight", "disable_frontlight"}
              /\ ~(c.pc = "done" /\ c.res.kind = "raise" /\ c.res.exc = "ValueError")) =>
             /\ IF Len(log) <= 7 THEN log = SubSeq(w, 1, Len(log))
                ELSE SubSeq(log, 1, 7) = w
             /\ c.pc = "w1" => Len(log) = 0
             /\ c.pc = "w2" => Len(log) = 2
             /\ c.pc = "w3" => Len(log) = 4
             /\ c.pc = "w4" => Len(log) = 6
             /\ c.pc \in {"r1", "r2", "r3"} => Len(log) >= 7
             /\ (c.pc = "done" /\ c.res.kind = "raise" /\ Len(log) <= 7) =>
                   /\ Len(log) \in {1, 3, 5, 7}
                   /\ Len(Outputs(log)) = (Len(log) - 1) \div 2)
    /\ [][ec["e"].pc = "done" =>
            (ec'["e"].ports = ec["e"].ports \/ ec'["e"].ports = <<>>)]_vars

\* set_brightness(3) timed out at the third gate: the WRITE command and the
\* address went out, the value did not, and nothing was read back
C33_Witness ==
    LET c == ec["e"] IN
    /\ c.op = "set_brightness" /\ c.arg = 3 /\ c.pc = "done"
    /\ c.res = Raised("TimeoutError")
    /\ c.ports = <<StatusRead, OutB(129, 102), StatusRead, OutB(53, 98), StatusRead>>

\* C31: without access read_brightness and get_frontlight_state return None,
\* and get_access_status returns the three stored fields, each without a port
\* transfer and without any effect on the EC.
C31_ProbesKeepOff ==
    /\ [](LET c == ec["e"] IN
          /\ (~ecst.access_available
                 /\ c.op \in {"read_brightness", "get_frontlight_state"}) =>
                /\ c.pc = "done" /\ c.res = StateNone /\ c.ports = <<>>
          /\ c.op = "get_access_status" =>
                /\ c.pc = "done" /\ c.ports = <<>>
                /\ c.res.kind = "status"
                /\ c.res.status = [available |-> ecst.access_available,
                                   secure_boot_enabled |-> ecst.secure_boot_enabled,
                                   error_message |-> ecst.error_message])
    /\ [][(\/ ec'["e"].op = "get_access_status"
            \/ (~ecst.access_available
                  /\ ec'["e"].op \in {"read_brightness", "get_frontlight_state"})) =>
           (hw' = hw /\ ecst' = ecst)]_vars

\* read_brightness has returned None on an engine that was refused the ports
C31_Witness ==
    LET c == ec["e"] IN
    /\ ~ecst.access_available /\ ecst.requested /\ ~ecst.granted
    /\ c.op = "read_brightness" /\ c.pc = "done" /\ c.res = StateNone
    /\ c.ports = <<>>
    /\ prev.op = "get_access_status"

\* C32: a polling loop makes at most TIMEOUT_US / POLL_DELAY_US = 10000 polls
\* and, against a flag that never turns, ends by raising TimeoutError after
\* exactly that many; the handler answers the command with a failed response,
\* goes on serving the connection, and the daemon keeps running.
C32_PollsBounded ==
    /\ [](\A c \in LifeClients :
            /\ ec[c].polls <= 10000
            /\ ec[c].waited = ec[c].polls * POLL_DELAY_US
            /\ TimedOut(ec[c]) => ec[c].polls = 10000
            /\ (hnd[c].pc = "respond" /\ hnd[c].raised) =>
                  hnd[c].resp = Failure("TimeoutError"))
    /\ [][\A c \in LifeClients :
            (TimedOut(ec[c]) /\ ec'[c] # ec[c]) =>
                /\ hnd'[c].pc = "respond" /\ ~hnd'[c].resp.success
                /\ running' /\ mainpc' = mainpc]_vars
    /\ \A c \in LifeClients : (hnd[c].pc = "ec") ~> (hnd[c].pc = "recv" /\ running)

\* the third gate of write_byte ran out of polls: the handler holds the
\* failed response and the daemon serves
C32_Witness ==
    /\ hnd["c1"].pc = "respond"
    /\ hnd["c1"].resp = Failure("TimeoutError")
    /\ hnd["c1"].frame = Frame("set-brightness", 5)
    /\ running /\ mainpc \in {"accept", "accepting"}
    /\ ~hwcfg.responsive

\* C34: while access_available is false no command causes a port read or
\* write: the frontlight and brightness commands are answered with a failed
\* response and no register transaction is attempted.
C34_NoTransactionWithoutAccess ==
    ~ecst.access_available =>
        \A c \in LifeClients :
            /\ ec[c].ports = <<>>
            /\ ec[c].pc \notin GatePcs
            /\ (hnd[c].pc = "respond" /\ hnd[c].frame.cmd = "set-brightness") =>
                  ~hnd[c].resp.success

\* C39: when the panel controller's disconnect raises during hardware
\* cleanup, the shutdown routine still removes the socket file and the
\* liveness marker: once no call of shutdown is under way, a daemon whose
\* cleanup failed is not left with running = FALSE next to its files.
C39_CleanupSurvivesFailure ==
    (/\ \E t \in ShutdownCallers : sd[t] = "raised"
     /\ \A t \in ShutdownCallers : sd[t] \notin BodyPcs \cup {"check"}
     /\ ~running) =>
        (~sockFile /\ pidFile # "own" /\ srvSock # "open")

(***************************************************************************)
(* Further claims about command handling, under SpecCmd.                   *)
(***************************************************************************)
\* hardware cleanup has been carried out by some caller of shutdown
CleanupStarted == \E t \in ShutdownCallers : sd[t] \in {"remove", "complete"}

\* C35: once shutdown has started the hardware cleanup, no handler thread
\* starts or is still inside an EC register transaction, and no command that
\* arrives afterwards enters handle_command.
C35_ShutdownTerminal ==
    CleanupStarted =>
        \A c \in LifeClients : hnd[c].pc \notin {"entry", "dispatch", "ec"}

\* C36: every complete frame the handler read is answered with one response
\* before the handler reads again or closes the connection, a payload that is
\* undecodable text or no mapping included: a handler that waits for a frame
\* or has closed holds no unanswered frame.
C36_OneResponsePerFrame ==
    \A c \in LifeClients :
        hnd[c].pc \in {"loop", "recv", "closed"} => hnd[c].frame = NoFrame

\* the command names the front-end passes to HelperClient.send_command
FrontEndCmds ==
    {"keepalive", "get-ec-status", "get-frontlight-state", "enable-eink",
     "disable-eink", "refresh-eink", "enable-frontlight", "disable-frontlight",
     "set-brightness", "shutdown"}

\* C37: every command name the front-end sends is an entry of the daemon's
\* dispatch table: no such request is answered "Unknown command".
C37_FrontEndKnown ==
    \A c \in LifeClients :
        (hnd[c].pc = "respond" /\ hnd[c].frame.cmd \in FrontEndCmds) =>
            /\ hnd[c].frame.cmd \in DispatchTable
            /\ hnd[c].resp.error # "Unknown command: " \o hnd[c].frame.cmd

====
